---- MODULE Spec2Model ----
(***************************************************************************)
(* Verification model of the forwarding proxy: routing decision            *)
(* (server/route), cipher stream (server/common), egress prelude           *)
(* (server/proxy/client) and tunneled ingress handshake                    *)
(* (server/proxy/server).                                                  *)
(*                                                                         *)
(* Strings are sequences of one-character strings; an IPv4 address is a    *)
(* tuple of four octets.                                                   *)
(***************************************************************************)
EXTENDS Integers, Sequences, FiniteSets, TLC

VARIABLES
    \* ---- routing decision (route.GetRemote) ----
    outType,      \* config.Config.Out.Type
    whiteRules,   \* RuleEngine.whiteRules
    blackRules,   \* RuleEngine.blackRules
    rPc,          \* position of the GetRemote call: idle | doh | done
    rTarget,      \* the *common.TargetAddr argument
    rVerdict,     \* the Remote returned: none | Direct | Tls | Wss
    rDohQueries,  \* ECSQuery calls issued by the current GetRemote call
    rRsp,         \* what ECSQuery returned to the current call
    \* ---- cipher stream (common.Chacha20Stream), one direction of one session ----
    key,          \* the shared key of both ends
    wEncoder,     \* writing end: s.encoder, [set, nonce, pos]
    rDecoder,     \* reading end: s.decoder, [set, nonce, pos]
    wire,         \* bytes the transport accepted from the writing end, in order
    wireKind,     \* for each byte of wire: "n" (nonce) or "p" (payload)
    wClosed,      \* the writing end has closed the transport
    rdPos,        \* number of bytes of wire delivered to the reading end
    plainOut,     \* plaintext of the payload bytes the transport accepted
    plainIn,      \* concatenation of the p[:n] that Read reported to its caller
    wCalls,       \* number of Write calls made
    rCalls,       \* number of Read calls made
    wLastErr,     \* the latest Write call returned an error
    wNonceCalls,  \* the Write calls (by number) that wrote nonce bytes
    rNonceCalls,  \* the Read calls (by number) that consumed bytes as nonce
    rNonceBytes,  \* number of bytes the reading end consumed as nonce
    nonceFailed,  \* a nonce write has failed on the writing end
    ioFault,      \* a transport call has returned an error other than EOF
    \* ---- egress prelude (client.TlsRemote / client.WSSRemote Handshake) ----
    dPc,          \* position of the Handshake call: idle | done
    dKind,        \* the dialer: Tls | Wss
    dAddrLen,     \* len(target.String())
    dWrites,      \* the ec.Write calls that succeeded, in order: [f, n, v]
    dErr,         \* the error returned: none | dial | tls | write | length
    \* ---- tunneled ingress (server.TlsServer / server.WSSServer), one session ----
    sPc,          \* idle | transport | ts | dl | addr | route | dial | relay | closed
    sKind,        \* the ingress: Tls | Wss
    sNow,         \* time.Now().Unix() on the server
    sSentTs,      \* the timestamp the client put into its prelude
    sStream,      \* plaintext bytes of the client's cipher stream, in order
    sPos,         \* number of bytes of sStream the server has read
    sTsRead,      \* number of bytes the read of the timestamp returned
    sGate,        \* the clock test: none | pass | reject
    sDl,          \* the length field as the server decoded it
    sTarget,      \* the target Handshake returned
    sNamePad,     \* number of zero bytes of addrBuf after the bytes read
    sErr,         \* the error Handshake returned, "none" if nil or not yet returned
    sOk,          \* Handshake has returned a nil error
    sRouted,      \* route.GetRemote has been called for the session
    sDialed,      \* remote.Handshake has been called for the session
    sReply,       \* what the server wrote back on failure: none | html | body | json
    \* ---- SOCKS5 / HTTP ingress (server.SocketServer.Start) ----
    procUp,       \* the process is running (no goroutine has panicked without recover)
    socks,        \* per connection slot: position of its goroutine and what it holds
    \* ---- process life cycle (package server init, main) ----
    mCfg,         \* config.Config: SystemProxy.Enable, Tun.Enable, In.Type
    mPc,          \* position of the initial goroutine: init | tun | listen | serving | main | wait | exited
    mSys,         \* what the process holds on the host: proxy settings, routes, device, listener
    mSig,         \* the signal received, whether signal.Notify has run, whether it came while serving
    mShut,        \* position of the shutdown goroutines: none | signalled | tunStopped | cancelled
    \* ---- host route manager (route.RouteManager) ----
    rmTable,      \* the host routing table
    rmLookup,     \* what net.LookupIP(config.Config.Out.RemoteAddr) returns
    rmPc,         \* position in SetupRoutes / RestoreRoutes
    rmBackedUp,   \* RouteManager.backedUp
    rmIdx,        \* routes of the current loop already asked for
    rmLog,        \* history: table before SetupRoutes, a command failed, a peer route failed, SetupRoutes returned nil
    \* ---- original-interface dialer (common.GetOriginalInterfaceDialer) ----
    gdDialer,     \* globalDialer
    gdOnce,       \* globalDialerOnce has run
    gdMu,         \* globalDialerMu: 0 or the goroutine holding the write lock
    gdSet,        \* SetOriginalInterfaceIP calls started and finished, and the IP of the last one finished
    gdThr,        \* per goroutine: its call, position, and what it got
    gdDoh,        \* the dialer the DoH singleton's transport holds (globalProvider.client)
    gdConns,      \* outbound connections opened so far
    gdCalls,      \* calls made so far
    \* ---- virtual-interface packet handler (tun.Handler) ----
    tPeers,       \* RouteManager.remoteServerIPs of the global route manager
    tTasks,       \* the packets read so far, each with the position of its handlePacket goroutine
    tTable,       \* Handler.connections: flow id to connection
    tConns,       \* the Connection objects created: flow id, payloads written to the egress, closed, forwarder running
    tCount,       \* Handler.connCount
    tBg,          \* flows established before the first packet of the model, and how many of them ended
    tReadLog,     \* per flow id: the payloads of its TCP data segments in the order read
    \* ---- TCP relay of a session (SocketServer.Start, TlsServer.Start) ----
    relKind,      \* which server runs the session
    relUp,        \* io.Copy(rConn, wConn): read, write, ended
    relDown,      \* io.Copy(wConn, rConn): read, write, ended
    relMain,      \* the session goroutine: copying, returned
    relClosed,    \* which of the two transports the program has closed
    relCli,       \* the client peer: chunks pending, chunks sent, closed
    relEgr,       \* the egress peer: chunks pending, chunks sent, closed
    \* ---- UDP_ASSOCIATE relay of a session (SocketServer.Start) ----
    uTarget,      \* target.UdpAddr
    uLast,        \* source address of the datagram most recently received on the bound socket
    uQueue,       \* datagrams waiting on the bound socket
    uStream,      \* payloads written to rConn
    uEgress,      \* chunks waiting on rConn
    uSent,        \* datagrams sent by WriteTo: destination, last peer at that time, payload
    uCount,       \* datagrams and chunks the peers have sent
    uPc,          \* position of the session goroutine and of the second goroutine
    \* ---- country-IP index ----
    cnFile,       \* the CIDR lines the loader has handled
    cnLoaded,     \* the loader is done
    cnAnswer,     \* the last call of IsCnIp and its result
    \* ---- rule tokens (parseRule, Rule.Match) ----
    rlToken,      \* the rule string given to parseRule
    rlRule,       \* the rule parseRule returned
    rlCall,       \* the last call of Match on that rule and its result
    \* ---- DoH cache (doh.DNSCache) ----
    cNow,         \* time.Now() in seconds
    cEntries,     \* DNSCache.entries
    cLastGet,     \* the Get that has just returned: key and result
    cLastSet,     \* per key the last Set: response, ttl argument, time
    cCount,       \* clock advances and Set calls so far
    cSweptLive,   \* cleanup has removed an entry that was not expired
    \* ---- configuration reload (config.ReloadConfig) ----
    rcConfig,     \* config.Config
    rcFile,       \* the configuration file
    rcEngine,     \* the global rule engine: loaded, whiteRules, blackRules
    rcRuns,       \* runs of the reload callback so far
    rcLast,       \* the ReloadConfig call that has just returned: error, state before it
    \* ---- the targets the ingress handshakes return ----
    hsKind,       \* which handshake returned last: none, socket, tls
    hsIn,         \* its input
    hsOut,        \* what it returned
    \* ---- the DNS interceptor of the virtual interface ----
    dqBuf,        \* the read buffer of Start
    dqTasks,      \* one handlePacket goroutine per packet read
    dqCache,      \* DNSCache.entries
    dqNow,        \* time.Now(), seconds
    dqLock,       \* DNSCache.mu
    dqOut,        \* packets written to the device
    dqFatal,      \* the runtime ended the process
    \* ---- one flow of the virtual interface and its return-path forwarder ----
    fwPc,         \* the forwarder: top, read, deliver, cleanup, done
    fwConn,       \* the Connection record and its transport
    fwTable,      \* the record is in h.connections
    fwCount,      \* h.connCount
    fwPeer,       \* the egress peer
    fwPackets,    \* data packets of the flow handled
    fwOut,        \* payloads written to the egress
    fwFailed,     \* a write to the egress failed
    fwDelivered,  \* packets the forwarder wrote to the device
    \* ---- parseDNSName, one loop iteration at a time ----
    pnData,       \* the message
    pnStart,      \* the offset the call was given
    pnOff,        \* offset
    pnName,       \* name
    pnOrig,       \* originalOffset
    pnJumped,     \* jumped
    pnJumps,      \* jumpsPerformed
    pnPc,         \* loop or done
    pnResult,     \* what the call returned
    \* ---- SetupRoutes, counting the routes of one run ----
    rqPlan,       \* the peer addresses and whitelist IP rules of the run
    rqStage,      \* peer, local, white, default, done, failed
    rqIdx,        \* addRoute calls made in the stage
    rqInstalled,  \* routes installed in the run
    rqFails,      \* addRoute calls that failed
    \* ---- the packet-read loop of the virtual interface ----
    lpPc,         \* position of Handler.Start
    lpDevice,     \* up or closed
    lpQueue,      \* reads the device has ready
    lpClosedErr,  \* the error Read returns on the closed device
    lpErr,        \* err of the last Read
    lpArrived,    \* packets that arrived
    lpSpawned,    \* handlePacket goroutines started
    \* ---- the UDP socket of a UDP_ASSOCIATE session ----
    asPc,         \* position of the session goroutine
    asReq,        \* command and address type of the request
    asSock,       \* the UDP socket: none, open, closed
    asBack,       \* the second relay goroutine
    asUp,         \* datagrams relayed to the egress
    asDown,       \* chunks relayed to the UDP socket
    asErr,        \* error of the session
    asEnded,      \* sessions that ended
    asLeft,       \* sockets open after their session ended
    \* ---- the packets the return-path forwarder writes ----
    emPc,         \* position of forwardSocks5ToTun
    emConn,       \* the flow's protocol and ports
    emChunk,      \* n of the last readConn.Read
    emLast,       \* headers, length and payload length of the last packet written
    emWrites      \* packets written

routeVars  == <<outType, whiteRules, blackRules, rPc, rTarget, rVerdict, rDohQueries, rRsp>>
cipherVars == <<key, wEncoder, rDecoder, wire, wireKind, wClosed, rdPos, plainOut, plainIn,
                wCalls, rCalls, wLastErr, wNonceCalls, rNonceCalls, rNonceBytes,
                nonceFailed, ioFault>>
dialVars   == <<dPc, dKind, dAddrLen, dWrites, dErr>>
ingressVars == <<sPc, sKind, sNow, sSentTs, sStream, sPos, sTsRead, sGate, sDl, sTarget,
                 sNamePad, sErr, sOk, sRouted, sDialed, sReply>>
socketVars == <<procUp, socks>>
mainVars == <<mCfg, mPc, mSys, mSig, mShut>>
rmVars == <<rmTable, rmLookup, rmPc, rmBackedUp, rmIdx, rmLog>>
gdVars == <<gdDialer, gdOnce, gdMu, gdSet, gdThr, gdDoh, gdConns, gdCalls>>
handlerVars == <<tPeers, tTasks, tTable, tConns, tCount, tBg, tReadLog>>
relayVars == <<relKind, relUp, relDown, relMain, relClosed, relCli, relEgr>>
udpVars == <<uTarget, uLast, uQueue, uStream, uEgress, uSent, uCount, uPc>>
cnipVars == <<cnFile, cnLoaded, cnAnswer>>
ruleVars == <<rlToken, rlRule, rlCall>>
cacheVars == <<cNow, cEntries, cLastGet, cLastSet, cCount, cSweptLive>>
reloadVars == <<rcConfig, rcFile, rcEngine, rcRuns, rcLast>>
hsVars == <<hsKind, hsIn, hsOut>>
dnsVars == <<dqBuf, dqTasks, dqCache, dqNow, dqLock, dqOut, dqFatal>>
fwdVars == <<fwPc, fwConn, fwTable, fwCount, fwPeer, fwPackets, fwOut, fwFailed, fwDelivered>>
nameVars == <<pnData, pnStart, pnOff, pnName, pnOrig, pnJumped, pnJumps, pnPc, pnResult>>
rqVars == <<rqPlan, rqStage, rqIdx, rqInstalled, rqFails>>
loopVars == <<lpPc, lpDevice, lpQueue, lpClosedErr, lpErr, lpArrived, lpSpawned>>
assocVars == <<asPc, asReq, asSock, asBack, asUp, asDown, asErr, asEnded, asLeft>>
emitVars == <<emPc, emConn, emChunk, emLast, emWrites>>
vars == <<routeVars, cipherVars, dialVars, ingressVars, socketVars, mainVars, rmVars, gdVars, handlerVars, relayVars, udpVars, cnipVars, ruleVars, cacheVars, reloadVars, hsVars, dnsVars, fwdVars, nameVars, rqVars, loopVars, assocVars, emitVars>>
exceptRoute == <<cipherVars, dialVars, ingressVars, socketVars, mainVars, rmVars, gdVars, handlerVars, relayVars, udpVars, cnipVars, ruleVars, cacheVars, reloadVars, hsVars, dnsVars, fwdVars, nameVars, rqVars, loopVars, assocVars, emitVars>>
exceptCipher == <<routeVars, dialVars, ingressVars, socketVars, mainVars, rmVars, gdVars, handlerVars, relayVars, udpVars, cnipVars, ruleVars, cacheVars, reloadVars, hsVars, dnsVars, fwdVars, nameVars, rqVars, loopVars, assocVars, emitVars>>
exceptDial == <<routeVars, cipherVars, ingressVars, socketVars, mainVars, rmVars, gdVars, handlerVars, relayVars, udpVars, cnipVars, ruleVars, cacheVars, reloadVars, hsVars, dnsVars, fwdVars, nameVars, rqVars, loopVars, assocVars, emitVars>>
exceptIngress == <<routeVars, cipherVars, dialVars, socketVars, mainVars, rmVars, gdVars, handlerVars, relayVars, udpVars, cnipVars, ruleVars, cacheVars, reloadVars, hsVars, dnsVars, fwdVars, nameVars, rqVars, loopVars, assocVars, emitVars>>
exceptSocket == <<routeVars, cipherVars, dialVars, ingressVars, mainVars, rmVars, gdVars, handlerVars, relayVars, udpVars, cnipVars, ruleVars, cacheVars, reloadVars, hsVars, dnsVars, fwdVars, nameVars, rqVars, loopVars, assocVars, emitVars>>
exceptMain == <<routeVars, cipherVars, dialVars, ingressVars, socketVars, rmVars, gdVars, handlerVars, relayVars, udpVars, cnipVars, ruleVars, cacheVars, reloadVars, hsVars, dnsVars, fwdVars, nameVars, rqVars, loopVars, assocVars, emitVars>>
exceptRm == <<routeVars, cipherVars, dialVars, ingressVars, socketVars, mainVars, gdVars, handlerVars, relayVars, udpVars, cnipVars, ruleVars, cacheVars, reloadVars, hsVars, dnsVars, fwdVars, nameVars, rqVars, loopVars, assocVars, emitVars>>
exceptGd == <<routeVars, cipherVars, dialVars, ingressVars, socketVars, mainVars, rmVars, handlerVars, relayVars, udpVars, cnipVars, ruleVars, cacheVars, reloadVars, hsVars, dnsVars, fwdVars, nameVars, rqVars, loopVars, assocVars, emitVars>>
exceptHandler == <<routeVars, cipherVars, dialVars, ingressVars, socketVars, mainVars, rmVars, gdVars, relayVars, udpVars, cnipVars, ruleVars, cacheVars, reloadVars, hsVars, dnsVars, fwdVars, nameVars, rqVars, loopVars, assocVars, emitVars>>
exceptRelay == <<routeVars, cipherVars, dialVars, ingressVars, socketVars, mainVars, rmVars, gdVars, handlerVars, udpVars, cnipVars, ruleVars, cacheVars, reloadVars, hsVars, dnsVars, fwdVars, nameVars, rqVars, loopVars, assocVars, emitVars>>
exceptUdp == <<routeVars, cipherVars, dialVars, ingressVars, socketVars, mainVars, rmVars, gdVars, handlerVars, relayVars, cnipVars, ruleVars, cacheVars, reloadVars, hsVars, dnsVars, fwdVars, nameVars, rqVars, loopVars, assocVars, emitVars>>
exceptCnIp == <<routeVars, cipherVars, dialVars, ingressVars, socketVars, mainVars, rmVars, gdVars, handlerVars, relayVars, udpVars, ruleVars, cacheVars, reloadVars, hsVars, dnsVars, fwdVars, nameVars, rqVars, loopVars, assocVars, emitVars>>
exceptRule == <<routeVars, cipherVars, dialVars, ingressVars, socketVars, mainVars, rmVars, gdVars, handlerVars, relayVars, udpVars, cnipVars, cacheVars, reloadVars, hsVars, dnsVars, fwdVars, nameVars, rqVars, loopVars, assocVars, emitVars>>
exceptCache == <<routeVars, cipherVars, dialVars, ingressVars, socketVars, mainVars, rmVars, gdVars, handlerVars, relayVars, udpVars, cnipVars, ruleVars, reloadVars, hsVars, dnsVars, fwdVars, nameVars, rqVars, loopVars, assocVars, emitVars>>
exceptReload == <<routeVars, cipherVars, dialVars, ingressVars, socketVars, mainVars, rmVars, gdVars, handlerVars, relayVars, udpVars, cnipVars, ruleVars, cacheVars, hsVars, dnsVars, fwdVars, nameVars, rqVars, loopVars, assocVars, emitVars>>
exceptHs == <<routeVars, cipherVars, dialVars, ingressVars, socketVars, mainVars, rmVars, gdVars, handlerVars, relayVars, udpVars, cnipVars, ruleVars, cacheVars, reloadVars, dnsVars, fwdVars, nameVars, rqVars, loopVars, assocVars, emitVars>>
exceptDns == <<routeVars, cipherVars, dialVars, ingressVars, socketVars, mainVars, rmVars, gdVars, handlerVars, relayVars, udpVars, cnipVars, ruleVars, cacheVars, reloadVars, hsVars, fwdVars, nameVars, rqVars, loopVars, assocVars, emitVars>>
exceptFwd == <<routeVars, cipherVars, dialVars, ingressVars, socketVars, mainVars, rmVars, gdVars, handlerVars, relayVars, udpVars, cnipVars, ruleVars, cacheVars, reloadVars, hsVars, dnsVars, nameVars, rqVars, loopVars, assocVars, emitVars>>
exceptName == <<routeVars, cipherVars, dialVars, ingressVars, socketVars, mainVars, rmVars, gdVars, handlerVars, relayVars, udpVars, cnipVars, ruleVars, cacheVars, reloadVars, hsVars, dnsVars, fwdVars, rqVars, loopVars, assocVars, emitVars>>
exceptRq == <<routeVars, cipherVars, dialVars, ingressVars, socketVars, mainVars, rmVars, gdVars, handlerVars, relayVars, udpVars, cnipVars, ruleVars, cacheVars, reloadVars, hsVars, dnsVars, fwdVars, nameVars, loopVars, assocVars, emitVars>>
exceptLoop == <<routeVars, cipherVars, dialVars, ingressVars, socketVars, mainVars, rmVars, gdVars, handlerVars, relayVars, udpVars, cnipVars, ruleVars, cacheVars, reloadVars, hsVars, dnsVars, fwdVars, nameVars, rqVars, assocVars, emitVars>>
exceptAssoc == <<routeVars, cipherVars, dialVars, ingressVars, socketVars, mainVars, rmVars, gdVars, handlerVars, relayVars, udpVars, cnipVars, ruleVars, cacheVars, reloadVars, hsVars, dnsVars, fwdVars, nameVars, rqVars, loopVars, emitVars>>
exceptEmit == <<routeVars, cipherVars, dialVars, ingressVars, socketVars, mainVars, rmVars, gdVars, handlerVars, relayVars, udpVars, cnipVars, ruleVars, cacheVars, reloadVars, hsVars, dnsVars, fwdVars, nameVars, rqVars, loopVars, assocVars>>

(***************************************************************************)
(* strings                                                                 *)
(***************************************************************************)
Digits == <<"0", "1", "2", "3", "4", "5", "6", "7", "8", "9">>
IsDigit(c) == \E i \in 1..10 : Digits[i] = c
DigitVal(c) == (CHOOSE i \in 1..10 : Digits[i] = c) - 1

RECURSIVE Itoa(_)
Itoa(n) == IF n < 10 THEN <<Digits[n + 1]>>
           ELSE Itoa(n \div 10) \o <<Digits[(n % 10) + 1]>>

\* strings.Index / strings.LastIndex for a one-byte separator, 1-based, 0 = absent
Index(s, c) == IF \E i \in 1..Len(s) : s[i] = c
               THEN CHOOSE i \in 1..Len(s) : s[i] = c /\ \A j \in 1..(i - 1) : s[j] # c
               ELSE 0
LastIndex(s, c) == IF \E i \in 1..Len(s) : s[i] = c
                   THEN CHOOSE i \in 1..Len(s) : s[i] = c /\ \A j \in (i + 1)..Len(s) : s[j] # c
                   ELSE 0
Contains(s, sub) == \E i \in 0..(Len(s) - Len(sub)) : SubSeq(s, i + 1, i + Len(sub)) = sub
HasPrefix(s, p) == Len(p) <= Len(s) /\ SubSeq(s, 1, Len(p)) = p
HasSuffix(s, p) == Len(p) <= Len(s) /\ SubSeq(s, Len(s) - Len(p) + 1, Len(s)) = p

RECURSIVE Split(_, _)
Split(s, c) == IF Index(s, c) = 0 THEN <<s>>
               ELSE <<SubSeq(s, 1, Index(s, c) - 1)>> \o Split(SubSeq(s, Index(s, c) + 1, Len(s)), c)

RECURSIVE DecValue(_)
DecValue(s) == IF Len(s) = 0 THEN 0
               ELSE 10 * DecValue(SubSeq(s, 1, Len(s) - 1)) + DigitVal(s[Len(s)])

\* strconv.Atoi on a port string: -1 stands for the error return
Atoi(s) == IF Len(s) \in 1..9 /\ \A i \in 1..Len(s) : IsDigit(s[i]) THEN DecValue(s) ELSE -1

(***************************************************************************)
(* IPv4 addresses                                                          *)
(***************************************************************************)
NoIP == <<>>

\* one dotted-decimal field as net.ParseIP reads it: 1-3 digits, <= 255, no leading zero
OctetOk(f) == /\ Len(f) \in 1..3
              /\ \A i \in 1..Len(f) : IsDigit(f[i])
              /\ (Len(f) > 1 => f[1] # "0")
              /\ DecValue(f) <= 255

ParseIP(s) ==
    LET parts == Split(s, ".") IN
    IF Len(parts) = 4 /\ \A i \in 1..4 : OctetOk(parts[i])
    THEN <<DecValue(parts[1]), DecValue(parts[2]), DecValue(parts[3]), DecValue(parts[4])>>
    ELSE NoIP

IPString(ip) == Itoa(ip[1]) \o <<".">> \o Itoa(ip[2]) \o <<".">> \o Itoa(ip[3]) \o <<".">> \o Itoa(ip[4])

IsLoopback(ip) == ip[1] = 127
IsPrivate(ip) == \/ ip[1] = 10
                 \/ (ip[1] = 172 /\ ip[2] \div 16 = 1)
                 \/ (ip[1] = 192 /\ ip[2] = 168)

\* helper.Ip2long and the uint32 arithmetic of the country-IP table: a uint32 is the
\* pair <<high 16 bits, low 16 bits>>, compared as the number it stands for
Half == 2 ^ 16
Ip2long(ip) == <<ip[1] * 256 + ip[2], ip[3] * 256 + ip[4]>>
U32Le(a, b) == a[1] < b[1] \/ (a[1] = b[1] /\ a[2] <= b[2])
U32Add(a, b) == <<(a[1] + b[1] + ((a[2] + b[2]) \div Half)) % Half, (a[2] + b[2]) % Half>>
U32Dec(a) == IF a[2] > 0 THEN <<a[1], a[2] - 1>> ELSE <<(a[1] + Half - 1) % Half, Half - 1>>
U32Pow2(k) == IF k < 16 THEN <<0, 2 ^ k>> ELSE <<2 ^ (k - 16), 0>>

\* net.IPNet: the address masked to its prefix, one octet at a time
OctetBits(bits, i) == IF bits >= 8 * i THEN 8 ELSE IF bits <= 8 * (i - 1) THEN 0 ELSE bits - 8 * (i - 1)
MaskOctet(o, b) == (o \div (2 ^ (8 - b))) * (2 ^ (8 - b))
MaskIP(ip, bits) == [i \in 1..4 |-> MaskOctet(ip[i], OctetBits(bits, i))]
NetContains(network, bits, ip) == MaskIP(ip, bits) = MaskIP(network, bits)

(***************************************************************************)
(* target addresses (common.TargetAddr)                                    *)
(***************************************************************************)
Target(name, ip, port, proto) == [Name |-> name, IP |-> ip, Port |-> port, Proto |-> proto]

\* net.JoinHostPort
JoinHostPort(host, port) ==
    IF Index(host, ":") # 0 \/ Index(host, "%") # 0
    THEN <<"[">> \o host \o <<"]", ":">> \o port
    ELSE host \o <<":">> \o port

TargetHost(t) == IF t.IP = NoIP THEN t.Name ELSE IPString(t.IP)
TargetString(t) == JoinHostPort(TargetHost(t), Itoa(t.Port))

\* net.SplitHostPort for hosts written without brackets
SplitHostPort(addr) ==
    LET i == LastIndex(addr, ":")
        host == SubSeq(addr, 1, i - 1)
        port == SubSeq(addr, i + 1, Len(addr))
    IN  IF i = 0 \/ Index(host, ":") # 0 \/ Index(host, "[") # 0 \/ Index(host, "]") # 0
        THEN [ok |-> FALSE, host |-> <<>>, port |-> <<>>]
        ELSE [ok |-> TRUE, host |-> host, port |-> port]

\* common.NewTargetAddr: ok = FALSE stands for the error return
NewTargetAddr(addr) ==
    LET hp == SplitHostPort(addr)
        host == IF hp.host = <<>> THEN <<"1", "2", "7", ".", "0", ".", "0", ".", "1">> ELSE hp.host
        port == IF Atoi(hp.port) = -1 THEN 0 ELSE Atoi(hp.port)
    IN  IF ~hp.ok THEN [ok |-> FALSE, addr |-> Target(<<>>, NoIP, 0, 0)]
        ELSE IF ParseIP(host) # NoIP THEN [ok |-> TRUE, addr |-> Target(<<>>, ParseIP(host), port, 0)]
        ELSE [ok |-> TRUE, addr |-> Target(host, NoIP, port, 0)]

(***************************************************************************)
(* rule engine (route.RuleEngine)                                          *)
(***************************************************************************)
CidrRule(network, bits) == [kind |-> "cidr", net |-> MaskIP(network, bits), bits |-> bits,
                            start |-> NoIP, end |-> NoIP, text |-> <<>>]
IpRangeRule(start, end) == [kind |-> "range", net |-> NoIP, bits |-> 0,
                            start |-> start, end |-> end, text |-> <<>>]
DomainWildcardRule(pattern) == [kind |-> "wild", net |-> NoIP, bits |-> 0,
                                start |-> NoIP, end |-> NoIP, text |-> pattern]
ExactRule(value) == [kind |-> "exact", net |-> NoIP, bits |-> 0,
                     start |-> NoIP, end |-> NoIP, text |-> value]

\* compareIP on two 4-byte addresses: -1, 0 or 1
RECURSIVE compareIPFrom(_, _, _)
compareIPFrom(ip1, ip2, i) ==
    IF i > 4 THEN 0
    ELSE IF ip1[i] < ip2[i] THEN -1
    ELSE IF ip1[i] > ip2[i] THEN 1
    ELSE compareIPFrom(ip1, ip2, i + 1)
compareIP(ip1, ip2) == compareIPFrom(ip1, ip2, 1)

\* the rule matcher without the removal of the port
matchDomain_KeepPort(target, pattern) ==
    IF pattern = target THEN TRUE
    ELSE IF HasPrefix(pattern, <<"*", ".">>)
         THEN HasSuffix(target, SubSeq(pattern, 2, Len(pattern))) \/ target = SubSeq(pattern, 3, Len(pattern))
    ELSE IF HasSuffix(pattern, <<".", "*">>)
         THEN HasPrefix(target, SubSeq(pattern, 1, Len(pattern) - 1))
    ELSE Contains(target, pattern)

matchDomain(target, pattern) ==
    LET idx == Index(target, ":")
        domain == IF idx # 0 THEN SubSeq(target, 1, idx - 1) ELSE target
    IN  IF pattern = domain THEN TRUE
        ELSE IF HasPrefix(pattern, <<"*", ".">>)
             THEN LET suffix == SubSeq(pattern, 3, Len(pattern))
                  IN  HasSuffix(domain, <<".">> \o suffix) \/ domain = suffix
        ELSE IF HasSuffix(pattern, <<".", "*">>)
             THEN LET prefix == SubSeq(pattern, 1, Len(pattern) - 2)
                  IN  HasPrefix(domain, prefix \o <<".">>)
        ELSE Contains(domain, pattern)

Match(rule, target, ip) ==
    CASE rule.kind = "cidr"  -> ip # NoIP /\ NetContains(rule.net, rule.bits, ip)
      [] rule.kind = "range" -> ip # NoIP /\ compareIP(ip, rule.start) >= 0
                                          /\ compareIP(ip, rule.end) <= 0
      [] rule.kind = "wild"  -> matchDomain(target, rule.text)
      [] rule.kind = "exact" -> Contains(target, rule.text)

EngineIsWhite(target, ip) == \E i \in 1..Len(whiteRules) : Match(whiteRules[i], target, ip)
EngineIsBlack(target, ip) == \E i \in 1..Len(blackRules) : Match(blackRules[i], target, ip)

\* route.IsWhite / route.IsBlack: the IP is re-parsed from the target string
ParsedIP(target) == IF NewTargetAddr(target).ok THEN NewTargetAddr(target).addr.IP ELSE NoIP
IsWhite(target) == EngineIsWhite(target, ParsedIP(target))
IsBlack(target) == EngineIsBlack(target, ParsedIP(target))

(***************************************************************************)
(* sample data: names, addresses, rule lists, country-IP file, GFW list    *)
(***************************************************************************)
NameGfw    == <<"x", ".", "i", "o">>
NameGfwSub == <<"w", ".", "x", ".", "i", "o">>
NameCn     == <<"a", ".", "c", "n">>
NameOrg    == <<"b", ".", "o", "r", "g">>
Names == {NameGfw, NameGfwSub, NameCn, NameOrg}

IpTen      == <<10, 5, 5, 5>>
IpCn       == <<114, 114, 114, 114>>
IpAbroad   == <<8, 8, 8, 8>>
IpLoop     == <<127, 0, 0, 1>>
IpLan      == <<192, 168, 1, 1>>
TargetIPs == {IpTen, IpCn, IpAbroad, IpLoop, IpLan}

Ports == {80, 443}
Targets == {Target(n, NoIP, p, 1) : n \in Names, p \in Ports}
           \cup {Target(<<>>, ip, p, 1) : ip \in TargetIPs, p \in Ports}

RemoteTypeTLS == 1
RemoteTypeWSS == 2
RemoteTypeDirect == 3
OutTypes == {0, RemoteTypeTLS, RemoteTypeWSS, RemoteTypeDirect}

WhiteLists == { <<>>,
                <<CidrRule(<<10, 0, 0, 0>>, 8)>>,
                <<DomainWildcardRule(<<"*", ".", "x", ".", "i", "o">>)>>,
                <<ExactRule(NameOrg), IpRangeRule(<<8, 8, 8, 0>>, <<8, 8, 8, 255>>)>> }
BlackLists == { <<>>,
                <<CidrRule(IpTen, 32)>>,
                <<ExactRule(NameGfw)>>,
                <<DomainWildcardRule(<<"*", ".", "o", "r", "g">>), CidrRule(<<8, 8, 0, 0>>, 16)>> }

\* config.Config.ChinaIpFile, one CIDR per line: the address as written and its prefix length
ChinaIpFile == << [ip |-> <<114, 114, 0, 0>>, bits |-> 16],
                  [ip |-> <<1, 0, 1, 0>>, bits |-> 24] >>

\* the ipRange the loader appends for one line, and the bucket it is appended to
LineRange(line) ==
    LET min == Ip2long(MaskIP(line.ip, line.bits))
    IN  [Min |-> min, Max |-> U32Dec(U32Add(min, U32Pow2(32 - line.bits)))]
cnIpOf(file, first) == [i \in {j \in 1..Len(file) : file[j].ip[1] = first} |-> LineRange(file[i])]
cnIp(first) == cnIpOf(ChinaIpFile, first)

\* route.IsCnIp on the dotted-decimal string of an address, for the index built from file
IsCnIpIn(file, ip) ==
    LET segs  == Split(ip, ".")
        first == IF Atoi(segs[1]) = -1 THEN 0 ELSE Atoi(segs[1]) % 256
        list  == cnIpOf(file, first)
        min   == Ip2long(ParseIP(ip))
    IN  \E i \in DOMAIN list : U32Le(list[i].Min, min) /\ U32Le(min, list[i].Max)
IsCnIp(ip) == IsCnIpIn(ChinaIpFile, ip)

\* gfwlist.GFWList.IsBlockedByGFW on the request GetRemote builds for a host name
GfwList == {NameGfw}
IsBlockedByGFW(host) == \E d \in GfwList : host = d \/ HasSuffix(host, <<".">> \o d)

(***************************************************************************)
(* DoH responses (doh.Response as ECSQuery returns it)                     *)
(***************************************************************************)
MaxAnswers == 2
TypeA == 1
Answer(type, data) == [Type |-> type, Data |-> data]
AnswerPool == { Answer(TypeA, IPString(IpAbroad)), Answer(TypeA, IPString(IpCn)),
                Answer(TypeA, IPString(IpTen)), Answer(TypeA, <<>>),
                Answer(5, NameOrg) }
RECURSIVE SeqsUpTo(_, _)
SeqsUpTo(S, n) == IF n = 0 THEN {<<>>}
                  ELSE SeqsUpTo(S, n - 1) \cup {Append(q, x) : q \in SeqsUpTo(S, n - 1), x \in S}
\* an error return (name conversion, subnet, network or deadline, body read, JSON,
\* non-zero Status) or a response with Status 0
DohErrors == {"punycode", "subnet", "network", "deadline", "read", "json", "status"}
DohResults == {[err |-> e, Answer |-> <<>>] : e \in DohErrors}
              \cup {[err |-> "none", Answer |-> a] : a \in SeqsUpTo(AnswerPool, MaxAnswers)}

(***************************************************************************)
(* routing decision (route.GetRemote)                                      *)
(***************************************************************************)
\* the switch on config.Config.Out.Type that every tunnel branch repeats
TunnelRemote == CASE outType = RemoteTypeTLS -> "Tls"
                  [] outType = RemoteTypeWSS -> "Wss"
                  [] OTHER -> "Direct"

\* GetRemote with the blacklist consulted before the whitelist
RouteBeforeDoH_BlackFirst(t) ==
    IF outType = RemoteTypeDirect THEN "Direct"
    ELSE IF IsBlack(TargetString(t)) THEN TunnelRemote
    ELSE IF IsWhite(TargetString(t)) THEN "Direct"
    ELSE IF t.IP = NoIP
         THEN IF IsBlockedByGFW(TargetHost(t)) THEN TunnelRemote
              ELSE IF HasSuffix(t.Name, <<".", "c", "n">>) THEN "Direct"
              ELSE "query"
    ELSE IF IsCnIp(IPString(t.IP)) \/ IsLoopback(t.IP) \/ IsPrivate(t.IP) THEN "Direct"
    ELSE TunnelRemote

\* GetRemote resolving every host name before it looks at the GFW list
RouteBeforeDoH_ResolveFirst(t) ==
    IF outType = RemoteTypeDirect THEN "Direct"
    ELSE IF IsWhite(TargetString(t)) THEN "Direct"
    ELSE IF IsBlack(TargetString(t)) THEN TunnelRemote
    ELSE IF t.IP = NoIP
         THEN IF HasSuffix(t.Name, <<".", "c", "n">>) THEN "Direct" ELSE "query"
    ELSE IF IsCnIp(IPString(t.IP)) \/ IsLoopback(t.IP) \/ IsPrivate(t.IP) THEN "Direct"
    ELSE TunnelRemote

\* GetRemote up to its first return or to the ECSQuery call ("query")
RouteBeforeDoH(t) ==
    IF outType = RemoteTypeDirect THEN "Direct"
    ELSE IF IsWhite(TargetString(t)) THEN "Direct"
    ELSE IF IsBlack(TargetString(t)) THEN TunnelRemote
    ELSE IF t.IP = NoIP
         THEN IF IsBlockedByGFW(TargetHost(t)) THEN TunnelRemote
              ELSE IF HasSuffix(t.Name, <<".", "c", "n">>) THEN "Direct"
              ELSE "query"
    ELSE IF IsCnIp(IPString(t.IP)) \/ IsLoopback(t.IP) \/ IsPrivate(t.IP) THEN "Direct"
    ELSE TunnelRemote

\* the loop over rsp.Answer: every type-A record overwrites ip
RECURSIVE PickIP(_, _)
PickIP(answers, ip) ==
    IF answers = <<>> THEN ip
    ELSE PickIP(Tail(answers), IF Head(answers).Type = TypeA THEN Head(answers).Data ELSE ip)

\* the verdict GetRemote reaches for the address string it picked
VerdictForIP(ip) ==
    IF ip = <<>> THEN "Direct"
    ELSE IF ParseIP(ip) = NoIP \/ IsLoopback(ParseIP(ip)) \/ IsPrivate(ParseIP(ip)) THEN "Direct"
    ELSE IF IsCnIp(ip) THEN "Direct"
    ELSE TunnelRemote

\* GetRemote sending the target through the tunnel when the resolver fails
RouteAfterDoH_ErrTunnel(rsp) ==
    IF rsp.err # "none" THEN TunnelRemote
    ELSE VerdictForIP(PickIP(rsp.Answer, <<>>))

\* GetRemote from the return of ECSQuery on
RouteAfterDoH(rsp) ==
    IF rsp.err # "none" THEN "Direct"
    ELSE VerdictForIP(PickIP(rsp.Answer, <<>>))

NoTarget == Target(<<>>, NoIP, 0, 0)
NoRsp == [err |-> "unset", Answer |-> <<>>]

GetRemote(t) ==
    LET r == RouteBeforeDoH(t)
    IN  /\ rPc = "idle"
        /\ rTarget' = t
        /\ rRsp' = NoRsp
        /\ IF r = "query"
           THEN rPc' = "doh" /\ rVerdict' = "none" /\ rDohQueries' = 1
           ELSE rPc' = "done" /\ rVerdict' = r /\ rDohQueries' = 0
        /\ UNCHANGED <<outType, whiteRules, blackRules>>
        /\ UNCHANGED exceptRoute

\* ECSQuery returns rsp to the GetRemote call that is waiting for it
ECSQueryReturn(rsp) ==
    /\ rPc = "doh"
    /\ rRsp' = rsp
    /\ rVerdict' = RouteAfterDoH(rsp)
    /\ rPc' = "done"
    /\ UNCHANGED <<outType, whiteRules, blackRules, rTarget, rDohQueries>>
    /\ UNCHANGED exceptRoute

\* the caller has taken the Remote; the next connection's GetRemote call may start
GetRemoteReturn ==
    /\ rPc = "done"
    /\ rPc' = "idle"
    /\ rTarget' = NoTarget
    /\ rRsp' = NoRsp
    /\ rVerdict' = "none"
    /\ rDohQueries' = 0
    /\ UNCHANGED <<outType, whiteRules, blackRules>>
    /\ UNCHANGED exceptRoute

RouteInit ==
    /\ outType \in OutTypes
    /\ whiteRules \in WhiteLists
    /\ blackRules \in BlackLists
    /\ rPc = "idle"
    /\ rTarget = NoTarget
    /\ rVerdict = "none"
    /\ rDohQueries = 0
    /\ rRsp = NoRsp

RouteIdle ==
    /\ outType = RemoteTypeDirect
    /\ whiteRules = <<>>
    /\ blackRules = <<>>
    /\ rPc = "idle"
    /\ rTarget = NoTarget
    /\ rVerdict = "none"
    /\ rDohQueries = 0
    /\ rRsp = NoRsp

RouteNext ==
    \/ \E t \in Targets : GetRemote(t)
    \/ \E rsp \in DohResults : ECSQueryReturn(rsp)
    \/ GetRemoteReturn


(***************************************************************************)
(* routing decision: properties                                            *)
(***************************************************************************)
Tunneled == outType \in {RemoteTypeTLS, RemoteTypeWSS}
Decided == rPc = "done"

\* C1: with egress type TLS or WSS, a target that matches a whitelist rule gets the
\* Direct dialer, also when it matches a blacklist rule.
C1_WhitelistPrecedence ==
    (Decided /\ Tunneled /\ IsWhite(TargetString(rTarget))) => rVerdict = "Direct"

\* white_list 10.0.0.0/8, black_list 10.5.5.5/32, out Wss, target 10.5.5.5:80
C1_Witness ==
    /\ Decided /\ outType = RemoteTypeWSS
    /\ rTarget = Target(<<>>, IpTen, 80, 1)
    /\ whiteRules = <<CidrRule(<<10, 0, 0, 0>>, 8)>>
    /\ blackRules = <<CidrRule(IpTen, 32)>>
    /\ IsWhite(TargetString(rTarget)) /\ IsBlack(TargetString(rTarget))
    /\ rVerdict = "Direct"

\* a host-name target on neither list that the GFW matcher reports as blocked
GfwCase == /\ rPc # "idle"
           /\ Tunneled
           /\ rTarget.IP = NoIP
           /\ ~IsWhite(TargetString(rTarget))
           /\ ~IsBlack(TargetString(rTarget))
           /\ IsBlockedByGFW(TargetHost(rTarget))

\* C2: for such a target GetRemote returns the configured tunnel dialer, and the call
\* never waits for, and never has issued, a DoH query.
C2_GfwHitNoDoh ==
    GfwCase => /\ rPc # "doh"
               /\ rDohQueries = 0
               /\ rVerdict = TunnelRemote /\ rVerdict \in {"Tls", "Wss"}

\* out Tls, GFW list holds the name, target name:443, no IP
C2_Witness ==
    /\ GfwCase /\ Decided
    /\ outType = RemoteTypeTLS
    /\ rTarget = Target(NameGfw, NoIP, 443, 1)
    /\ rVerdict = "Tls" /\ rDohQueries = 0

\* the type-A answers of a response, in order
TypeAData(answers) == SelectSeq(answers, LAMBDA a : a.Type = TypeA)
Resolved == Decided /\ rDohQueries = 1

\* C3 (as claimed): the verdict after a DoH response with type-A answers is the one the
\* loopback / private / country-IP test gives for the first type-A answer.
C3_FirstTypeA ==
    (Resolved /\ rRsp.err = "none" /\ TypeAData(rRsp.Answer) # <<>>)
        => rVerdict = VerdictForIP(TypeAData(rRsp.Answer)[1].Data)

\* C4: when the DoH query fails, or its response holds no type-A answer, GetRemote
\* returns the Direct dialer.
C4_ResolverFailureDirect ==
    (Resolved /\ (rRsp.err # "none" \/ TypeAData(rRsp.Answer) = <<>>)) => rVerdict = "Direct"

C4_Witness ==
    /\ Resolved /\ Tunneled
    /\ rRsp.err = "deadline"
    /\ rVerdict = "Direct"

(***************************************************************************)
(* cipher stream (common.Chacha20Stream)                                   *)
(*                                                                         *)
(* One direction of a session: the writing end's Write, the transport      *)
(* (a net.Conn: an ordered byte stream that loses nothing, delivers in     *)
(* chunks of any size, and may return errors), the reading end's Read.     *)
(* A byte is a bit; XChaCha20 is a keystream that depends on the key, the  *)
(* nonce and the position.                                                 *)
(***************************************************************************)
Bytes == {0, 1}
Keys == {0, 1}
NonceSizeX == 24
Nonces == { [i \in 1..NonceSizeX |-> 0], [i \in 1..NonceSizeX |-> i % 2] }

MaxWrite == 2      \* longest buffer handed to one Write
MaxPlain == 2      \* plaintext bytes written over a run
MaxBuf == 2        \* longest buffer handed to one Read
MaxCalls == 3      \* Write calls, and Read calls, over a run

Min(a, b) == IF a < b THEN a ELSE b

\* chacha20.Cipher.XORKeyStream from keystream position pos
KeyStream(k, nonce, pos) == (k + nonce[1 + (pos % NonceSizeX)] + pos) % 2
XORKeyStream(k, nonce, pos, src) ==
    [i \in 1..Len(src) |-> (src[i] + KeyStream(k, nonce, pos + i - 1)) % 2]

NoCipher == [set |-> FALSE, nonce |-> <<>>, pos |-> 0]
NewCipher(nonce) == [set |-> TRUE, nonce |-> nonce, pos |-> 0]
Kinds(n, kind) == [i \in 1..n |-> kind]

\* counts of nonce bytes a failing nonce write or read gets through before its error
PartialNonce == {0, 1}

\* Chacha20Stream.Write(p). nonce: what rand.Read produced when the encoder is created.
\* nw: bytes of the nonce the transport accepted (all of them, or fewer with an error).
\* pw: bytes of the encrypted payload the transport accepted (all, or fewer with an error).
Write(p, nonce, nw, pw) ==
    LET first == ~wEncoder.set
        enc0  == IF first THEN NewCipher(nonce) ELSE wEncoder
        nonceOk == ~first \/ nw = NonceSizeX
        dst   == XORKeyStream(key, enc0.nonce, enc0.pos, p)
    IN  /\ ~wClosed
        /\ wCalls < MaxCalls
        /\ Len(plainOut) + Len(p) <= MaxPlain
        /\ first => nw \in PartialNonce \cup {NonceSizeX}
        /\ ~first => nw = 0
        /\ pw \in 0..Len(p)
        /\ wCalls' = wCalls + 1
        /\ IF ~nonceOk
           THEN \* "write nonce failed": s.encoder stays set, nothing else is written
                /\ wEncoder' = enc0
                /\ wire' = wire \o SubSeq(nonce, 1, nw)
                /\ wireKind' = wireKind \o Kinds(nw, "n")
                /\ wNonceCalls' = IF nw > 0 THEN wNonceCalls \cup {wCalls + 1} ELSE wNonceCalls
                /\ nonceFailed' = TRUE
                /\ wLastErr' = TRUE
                /\ ioFault' = TRUE
                /\ UNCHANGED plainOut
           ELSE /\ wEncoder' = [enc0 EXCEPT !.pos = @ + Len(p)]
                /\ wire' = wire \o (IF first THEN nonce ELSE <<>>) \o SubSeq(dst, 1, pw)
                /\ wireKind' = wireKind \o Kinds(IF first THEN NonceSizeX ELSE 0, "n")
                                        \o Kinds(pw, "p")
                /\ wNonceCalls' = IF first THEN wNonceCalls \cup {wCalls + 1} ELSE wNonceCalls
                /\ plainOut' = plainOut \o SubSeq(p, 1, pw)
                /\ wLastErr' = (pw < Len(p))
                /\ ioFault' = (ioFault \/ pw < Len(p))
                /\ UNCHANGED nonceFailed
        /\ UNCHANGED <<key, rDecoder, wClosed, rdPos, plainIn, rCalls, rNonceCalls, rNonceBytes>>
        /\ UNCHANGED exceptCipher

\* Chacha20Stream.Close on the writing end
Close ==
    /\ ~wClosed
    /\ wClosed' = TRUE
    /\ UNCHANGED <<key, wEncoder, rDecoder, wire, wireKind, rdPos, plainOut, plainIn, wCalls,
                   rCalls, wLastErr, wNonceCalls, rNonceCalls, rNonceBytes, nonceFailed, ioFault>>
    /\ UNCHANGED exceptCipher

\* what Read hands back for a chunk that conn.Read returned with err == nil
Decrypt(dec, chunk) == XORKeyStream(key, dec.nonce, dec.pos, chunk)

\* Chacha20Stream.Read(p) with len(p) = n.
\* nr: bytes io.ReadAtLeast got for the nonce (all of them, or fewer with an error).
\* k: bytes conn.Read returned; eof: it returned them with io.EOF; err: it returned
\* another error (and no bytes).
Read(n, nr, k, eof, err) ==
    LET first == ~rDecoder.set
        nonceOk == ~first \/ nr = NonceSizeX
        pos1  == rdPos + nr
        dec0  == IF first THEN NewCipher(SubSeq(wire, rdPos + 1, rdPos + NonceSizeX))
                 ELSE rDecoder
        left  == Len(wire) - pos1
        chunk == SubSeq(wire, pos1 + 1, pos1 + k)
    IN  /\ rCalls < MaxCalls
        /\ first => nr \in PartialNonce \cup {NonceSizeX}
        /\ ~first => nr = 0
        /\ nr <= Len(wire) - rdPos
        /\ rCalls' = rCalls + 1
        /\ IF ~nonceOk
           THEN \* "can't read nonce from stream": returns (nr, err), p untouched (zeroes)
                /\ k = 0 /\ ~eof /\ ~err
                /\ rdPos' = pos1
                /\ rNonceBytes' = rNonceBytes + nr
                /\ rNonceCalls' = IF nr > 0 THEN rNonceCalls \cup {rCalls + 1} ELSE rNonceCalls
                /\ plainIn' = plainIn \o [i \in 1..Min(nr, n) |-> 0]
                /\ ioFault' = TRUE
                /\ UNCHANGED rDecoder
           ELSE /\ k \in 0..Min(n, left)
                /\ err => (k = 0 /\ ~eof)
                /\ eof => (wClosed /\ k = left)
                /\ (~err /\ ~eof) => (k > 0 \/ n = 0)
                /\ rdPos' = pos1 + k
                /\ rNonceBytes' = rNonceBytes + nr
                /\ rNonceCalls' = IF first THEN rNonceCalls \cup {rCalls + 1} ELSE rNonceCalls
                /\ IF err \/ eof \/ k = 0
                   THEN \* "if err != nil || n == 0 { return n, err }"
                        /\ rDecoder' = dec0
                        /\ plainIn' = plainIn \o chunk
                   ELSE /\ rDecoder' = [dec0 EXCEPT !.pos = @ + k]
                        /\ plainIn' = plainIn \o Decrypt(dec0, chunk)
                /\ ioFault' = (ioFault \/ err)
        /\ UNCHANGED <<key, wEncoder, wire, wireKind, wClosed, plainOut, wCalls, wLastErr,
                       wNonceCalls, nonceFailed>>
        /\ UNCHANGED exceptCipher

CipherInit ==
    /\ key \in Keys
    /\ wEncoder = NoCipher
    /\ rDecoder = NoCipher
    /\ wire = <<>>
    /\ wireKind = <<>>
    /\ wClosed = FALSE
    /\ rdPos = 0
    /\ plainOut = <<>>
    /\ plainIn = <<>>
    /\ wCalls = 0
    /\ rCalls = 0
    /\ wLastErr = FALSE
    /\ wNonceCalls = {}
    /\ rNonceCalls = {}
    /\ rNonceBytes = 0
    /\ nonceFailed = FALSE
    /\ ioFault = FALSE

CipherIdle == CipherInit /\ key = 0

CipherNext ==
    \/ \E p \in SeqsUpTo(Bytes, MaxWrite), nonce \in Nonces, nw \in 0..NonceSizeX, pw \in 0..MaxWrite :
          Write(p, nonce, nw, pw)
    \/ Close
    \/ \E n \in 0..MaxBuf, nr \in 0..NonceSizeX, k \in 0..MaxBuf, eof \in BOOLEAN, err \in BOOLEAN :
          Read(n, nr, k, eof, err)


(***************************************************************************)
(* cipher stream: properties                                               *)
(***************************************************************************)
IsPrefixOf(a, b) == Len(a) <= Len(b) /\ a = SubSeq(b, 1, Len(a))
NonceOnWire == Len(SelectSeq(wireKind, LAMBDA x : x = "n"))
PayloadOnWire == Len(SelectSeq(wireKind, LAMBDA x : x = "p"))
NonceLeads == Len(wireKind) >= NonceSizeX /\ \A i \in 1..NonceSizeX : wireKind[i] = "n"

\* C5 (as claimed): while the transport loses nothing and fails no call, the plaintext the
\* reads returned is a prefix of the plaintext written, and equals it once every byte on the
\* transport has been read.
C5_RoundTrip ==
    ~ioFault => /\ IsPrefixOf(plainIn, plainOut)
                /\ (rDecoder.set /\ rdPos = Len(wire)) => plainIn = plainOut

\* C6 (as claimed): nonce bytes are written in the first Write only and consumed in the first
\* Read only, never more than one nonce of them, and a complete nonce is on the transport
\* before any payload byte and consumed before any payload byte is read.
C6_NonceOncePerDirection ==
    /\ wNonceCalls \subseteq {1}
    /\ rNonceCalls \subseteq {1}
    /\ NonceOnWire <= NonceSizeX
    /\ rNonceBytes <= NonceSizeX
    /\ PayloadOnWire > 0 => NonceLeads
    /\ rDecoder.set => rNonceBytes = NonceSizeX

\* C7 (as claimed): once the nonce write of the first Write has failed, every Write returns
\* an error and no payload byte goes onto the transport.
C7_NonceFailureTerminal ==
    nonceFailed => (wLastErr /\ PayloadOnWire = 0)


(***************************************************************************)
(* egress prelude (client.TlsRemote.Handshake, client.WSSRemote.Handshake) *)
(*                                                                         *)
(* The writes are recorded at the cipher stream's interface, one record    *)
(* per ec.Write call: the field, its length in bytes and, for the fixed    *)
(* width fields, the number it encodes. A target string is given by its    *)
(* length.                                                                 *)
(***************************************************************************)
\* int16(x) and uint16(x) of Go, for x an int
Int16(x) == ((x + 2 ^ 15) % 2 ^ 16) - 2 ^ 15
Uint16(x) == x % 2 ^ 16

\* lengths of target.String(): a short host, the limit and its neighbours, the ends of the
\* int16 and uint16 ranges and lengths past them
AddrLens == {9, 253, 254, 255, 2 ^ 15 - 1, 2 ^ 15, 2 ^ 15 + 254, 2 ^ 16 - 1, 2 ^ 16, 2 ^ 16 + 254}
Protos == {1, 3}
Clocks == {1700000000, 1700000100}

\* the step of Handshake at which the environment fails the call, if any
TlsFailures == {"none", "dial", "tls", "ts", "proto", "len", "addr"}
WssFailures == TlsFailures \ {"tls"}

Field(f, n, v) == [f |-> f, n |-> n, v |-> v]

\* the part of Handshake after the connection is up: what is written to ec and the error
\* returned; fail names the ec.Write that returns an error
PreludeWrites(L, proto, now, fail) ==
    LET l == Int16(L)
        ts == <<Field("ts", 8, now)>>
        pr == ts \o <<Field("proto", 2, proto)>>
        ln == pr \o <<Field("len", 2, Uint16(l))>>
        ad == ln \o <<Field("addr", L, 0)>>
    IN  IF fail = "ts" THEN [writes |-> <<>>, err |-> "write"]
        ELSE IF fail = "proto" THEN [writes |-> ts, err |-> "write"]
        ELSE IF l > 253 THEN [writes |-> pr, err |-> "length"]
        ELSE IF fail = "len" THEN [writes |-> pr, err |-> "write"]
        ELSE IF fail = "addr" THEN [writes |-> ln, err |-> "write"]
        ELSE [writes |-> ad, err |-> "none"]

DialOutcome(L, proto, now, fail) ==
    IF fail \in {"dial", "tls"} THEN [writes |-> <<>>, err |-> fail]
    ELSE PreludeWrites(L, proto, now, fail)

TlsRemoteHandshake(L, proto, now, fail) ==
    LET r == DialOutcome(L, proto, now, fail)
    IN  /\ dPc = "idle"
        /\ dPc' = "done"
        /\ dKind' = "Tls"
        /\ dAddrLen' = L
        /\ dWrites' = r.writes
        /\ dErr' = r.err
        /\ UNCHANGED exceptDial

WSSRemoteHandshake(L, proto, now, fail) ==
    LET r == DialOutcome(L, proto, now, fail)
    IN  /\ dPc = "idle"
        /\ dPc' = "done"
        /\ dKind' = "Wss"
        /\ dAddrLen' = L
        /\ dWrites' = r.writes
        /\ dErr' = r.err
        /\ UNCHANGED exceptDial

\* the caller is done with the result; the next session dials again
HandshakeReturn ==
    /\ dPc = "done"
    /\ dPc' = "idle"
    /\ dKind' = "none"
    /\ dAddrLen' = 0
    /\ dWrites' = <<>>
    /\ dErr' = "none"
    /\ UNCHANGED exceptDial

DialInit ==
    /\ dPc = "idle"
    /\ dKind = "none"
    /\ dAddrLen = 0
    /\ dWrites = <<>>
    /\ dErr = "none"

DialIdle == DialInit

DialNext ==
    \/ \E L \in AddrLens, proto \in Protos, now \in Clocks, fail \in TlsFailures :
          TlsRemoteHandshake(L, proto, now, fail)
    \/ \E L \in AddrLens, proto \in Protos, now \in Clocks, fail \in WssFailures :
          WSSRemoteHandshake(L, proto, now, fail)
    \/ HandshakeReturn

(***************************************************************************)
(* egress prelude: properties                                              *)
(***************************************************************************)
AddrWritten == \E i \in 1..Len(dWrites) : dWrites[i].f = "addr"

\* C8 (as claimed): for a target string longer than 253 bytes, of whatever length, the TLS
\* and the WSS dialer return an error and hand no byte of the target string to the cipher
\* stream.
C8_LongTargetRejected ==
    (dPc = "done" /\ dAddrLen > 253) => (dErr # "none" /\ ~AddrWritten)

(***************************************************************************)
(* tunneled ingress (server.TlsServer, server.WSSServer)                   *)
(*                                                                         *)
(* The client's cipher stream is taken after decryption: sStream is the    *)
(* plaintext the client wrote, a sequence of bytes 0..255. Each ec.Read    *)
(* returns what one conn.Read returns: at least one and at most len(p) of  *)
(* the bytes that follow, or an error.                                     *)
(***************************************************************************)
\* the printable ASCII characters, codes 32..126 (code 96 is kept in its escaped form)
Printable ==
    <<" ", "!", "\"", "#", "$", "%", "&", "'", "(", ")", "*", "+", ",", "-", ".", "/",
      "0", "1", "2", "3", "4", "5", "6", "7", "8", "9", ":", ";", "<", "=", ">", "?",
      "@", "A", "B", "C", "D", "E", "F", "G", "H", "I", "J", "K", "L", "M", "N", "O",
      "P", "Q", "R", "S", "T", "U", "V", "W", "X", "Y", "Z", "[", "\\", "]", "^", "_",
      "\\x96", "a", "b", "c", "d", "e", "f", "g", "h", "i", "j", "k", "l", "m", "n", "o",
      "p", "q", "r", "s", "t", "u", "v", "w", "x", "y", "z", "{", "|", "}", "~">>

\* string(b) and []byte(s), one byte at a time; a byte outside 32..126 is the character
\* written \x<code>
Chr(b) == IF b \in 32..126 THEN Printable[b - 31] ELSE "\\x" \o ToString(b)
Ord(c) == CHOOSE b \in 32..126 : Printable[b - 31] = c
BytesToString(bs) == [i \in 1..Len(bs) |-> Chr(bs[i])]
StringToBytes(str) == [i \in 1..Len(str) |-> Ord(str[i])]

\* binary.BigEndian for the two field widths. Clocks are below 2^31, so the upper four
\* bytes of a timestamp written from one are zero.
PutUint16(v) == <<(v \div 256) % 256, v % 256>>
BeUint16(b) == b[1] * 256 + b[2]
PutUint64(v) == <<0, 0, 0, 0, (v \div 2 ^ 24) % 256, (v \div 2 ^ 16) % 256, (v \div 256) % 256, v % 256>>
BeUint64(b) == ((b[5] * 256 + b[6]) * 256 + b[7]) * 256 + b[8]

\* a buffer of n zero bytes whose first bytes a Read has overwritten with got
Filled(n, got) == [i \in 1..n |-> IF i <= Len(got) THEN got[i] ELSE 0]

\* uint64(time.Now().Unix())-ts > 10. The subtraction is modulo 2^64: for ts above now it
\* wraps to 2^64 - (ts - now), which is above 10 for every ts - now below 2^64 - 10.
ClockRejects(now, ts) == IF ts <= now THEN now - ts > 10 ELSE TRUE

\* strconv.ParseInt(s, 10, 64): optional sign, then one or more digits
ParseInt(str) ==
    LET signed == Len(str) > 0 /\ str[1] \in {"+", "-"}
        digits == IF signed THEN SubSeq(str, 2, Len(str)) ELSE str
    IN  IF Atoi(digits) = -1 THEN [ok |-> FALSE, v |-> 0]
        ELSE [ok |-> TRUE, v |-> IF signed /\ str[1] = "-" THEN -Atoi(digits) ELSE Atoi(digits)]

\* Handshake from "addr := string(addrBuf)" on. head: the bytes the read put into addrBuf,
\* as a string; pad: the zero bytes of addrBuf after them. A zero byte is no colon, no digit
\* and no part of an IP address.
ParseAddr(head, pad) ==
    LET i  == LastIndex(head, ":")
        hp == SplitHostPort(head)
        pi == ParseInt(hp.port)
        host == IF i = 0 THEN head ELSE hp.host
        hostPad == IF i = 0 THEN pad ELSE 0
        port == IF i = 0 THEN 80 ELSE pi.v
        ip == IF hostPad = 0 THEN ParseIP(host) ELSE NoIP
    IN  IF i # 0 /\ ~hp.ok THEN [err |-> "addr", target |-> NoTarget, pad |-> 0]
        ELSE IF i # 0 /\ (pad > 0 \/ ~pi.ok) THEN [err |-> "port", target |-> NoTarget, pad |-> 0]
        ELSE IF ip = NoIP THEN [err |-> "none", target |-> Target(host, NoIP, port, 0), pad |-> hostPad]
        ELSE [err |-> "none", target |-> Target(<<>>, ip, port, 0), pad |-> 0]

\* what clients send. Timestamps relative to the server clock; the rest of the prelude as
\* client.TlsRemote writes it (proto, length, address) or without the proto field.
TsOffsets == {-100, -11, -10, -1, 0, 1, 10, 11, 100}
SentAddrs == { NameOrg \o <<":", "8", "0">>, IPString(IpAbroad) \o <<":", "4", "4", "3">>, NameGfw }
PreludeTail(proto, addr, withProto) ==
    (IF withProto THEN PutUint16(proto) ELSE <<>>)
        \o PutUint16(Uint16(Int16(Len(addr)))) \o StringToBytes(addr)
ClientStreams(ts) ==
    { PutUint64(ts) \o PreludeTail(proto, addr, withProto) :
          proto \in Protos, addr \in SentAddrs, withProto \in BOOLEAN }

Avail == Len(sStream) - sPos
Chunk(k) == SubSeq(sStream, sPos + 1, sPos + k)

\* the listener hands over a connection; the client's clock and prelude are the session's
\* input
Accept(kind, now, off, stream) ==
    /\ sPc = "idle"
    /\ stream \in ClientStreams(now + off)
    /\ sPc' = "transport"
    /\ sKind' = kind
    /\ sNow' = now
    /\ sSentTs' = now + off
    /\ sStream' = stream
    /\ UNCHANGED <<sPos, sTsRead, sGate, sDl, sTarget, sNamePad, sErr, sOk, sRouted, sDialed, sReply>>
    /\ UNCHANGED exceptIngress

\* TlsServer.Handshake: cc.Handshake() and sc.Sniff(); WSSServer.Start: upgrader.Upgrade.
\* res: ok, or the step that fails (tls, http for a plain HTTP request, upgrade)
TransportHandshake(res) ==
    /\ sPc = "transport"
    /\ res \in IF sKind = "Tls" THEN {"ok", "tls", "http"} ELSE {"ok", "upgrade"}
    /\ IF res = "ok"
       THEN sPc' = "ts" /\ UNCHANGED <<sErr, sReply>>
       ELSE /\ sPc' = "closed"
            /\ sErr' = res
            /\ sReply' = IF sKind = "Tls" THEN "html" ELSE "body"
    /\ UNCHANGED <<sKind, sNow, sSentTs, sStream, sPos, sTsRead, sGate, sDl, sTarget, sNamePad,
                   sOk, sRouted, sDialed>>
    /\ UNCHANGED exceptIngress

\* Handshake returns the error e: TlsServer.Handshake has written common.DefaultHtml before,
\* WSSServer.Start writes its JSON text message after
HandshakeFails(e) ==
    /\ sPc' = "closed"
    /\ sErr' = e
    /\ sReply' = IF sKind = "Tls" THEN "html" ELSE "json"

\* ec.Read(tBuf) and the clock test. k: bytes the read returned; err: it returned an error
\* (the nonce read included)
ReadTs(k, err) ==
    LET tBuf == Filled(8, Chunk(k))
        ts == BeUint64(tBuf)
    IN  /\ sPc = "ts"
        /\ IF err
           THEN k = 0 /\ HandshakeFails("read") /\ UNCHANGED <<sPos, sTsRead, sGate>>
           ELSE /\ k \in 1..Min(8, Avail)
                /\ sPos' = sPos + k
                /\ sTsRead' = k
                /\ IF ClockRejects(sNow, ts)
                   THEN sGate' = "reject" /\ HandshakeFails("clock")
                   ELSE sGate' = "pass" /\ sPc' = "dl" /\ UNCHANGED <<sErr, sReply>>
        /\ UNCHANGED <<sKind, sNow, sSentTs, sStream, sDl, sTarget, sNamePad, sOk, sRouted, sDialed>>
        /\ UNCHANGED exceptIngress

\* ec.Read(dlBuf) and binary.BigEndian.Uint16(dlBuf)
ReadDl(k, err) ==
    /\ sPc = "dl"
    /\ IF err
       THEN k = 0 /\ HandshakeFails("read") /\ UNCHANGED <<sPos, sDl>>
       ELSE /\ k \in 1..Min(2, Avail)
            /\ sPos' = sPos + k
            /\ sDl' = BeUint16(Filled(2, Chunk(k)))
            /\ sPc' = "addr"
            /\ UNCHANGED <<sErr, sReply>>
    /\ UNCHANGED <<sKind, sNow, sSentTs, sStream, sTsRead, sGate, sTarget, sNamePad, sOk, sRouted, sDialed>>
    /\ UNCHANGED exceptIngress

\* ec.Read(addrBuf) with len(addrBuf) = dl, and the parse of the address up to the return of
\* Handshake. A read into an empty buffer returns (0, nil).
ReadAddr(k, err) ==
    LET r == ParseAddr(BytesToString(Chunk(k)), sDl - k)
    IN  /\ sPc = "addr"
        /\ IF err
           THEN k = 0 /\ HandshakeFails("read") /\ UNCHANGED <<sPos, sTarget, sNamePad, sOk>>
           ELSE /\ k \in 0..Min(sDl, Avail)
                /\ k = 0 => sDl = 0
                /\ sPos' = sPos + k
                /\ IF r.err # "none"
                   THEN HandshakeFails(r.err) /\ UNCHANGED <<sTarget, sNamePad, sOk>>
                   ELSE /\ sTarget' = r.target
                        /\ sNamePad' = r.pad
                        /\ sOk' = TRUE
                        /\ sPc' = "route"
                        /\ UNCHANGED <<sErr, sReply>>
        /\ UNCHANGED <<sKind, sNow, sSentTs, sStream, sTsRead, sGate, sDl, sRouted, sDialed>>
        /\ UNCHANGED exceptIngress

\* Start after Handshake returned nil: remote := route.GetRemote(gCtx, target)
RouteSession ==
    /\ sPc = "route"
    /\ sRouted' = TRUE
    /\ sPc' = "dial"
    /\ UNCHANGED <<sKind, sNow, sSentTs, sStream, sPos, sTsRead, sGate, sDl, sTarget, sNamePad,
                   sErr, sOk, sDialed, sReply>>
    /\ UNCHANGED exceptIngress

\* Start: rConn, err := remote.Handshake(gCtx, target); on success the relay begins
DialSession(ok) ==
    /\ sPc = "dial"
    /\ sDialed' = TRUE
    /\ IF ok THEN sPc' = "relay" /\ UNCHANGED sReply
       ELSE sPc' = "closed" /\ sReply' = IF sKind = "Tls" THEN "html" ELSE "json"
    /\ UNCHANGED <<sKind, sNow, sSentTs, sStream, sPos, sTsRead, sGate, sDl, sTarget, sNamePad,
                   sErr, sOk, sRouted>>
    /\ UNCHANGED exceptIngress

IngressInit ==
    /\ sPc = "idle"
    /\ sKind = "none"
    /\ sNow = 0
    /\ sSentTs = 0
    /\ sStream = <<>>
    /\ sPos = 0
    /\ sTsRead = 0
    /\ sGate = "none"
    /\ sDl = 0
    /\ sTarget = NoTarget
    /\ sNamePad = 0
    /\ sErr = "none"
    /\ sOk = FALSE
    /\ sRouted = FALSE
    /\ sDialed = FALSE
    /\ sReply = "none"

IngressIdle == IngressInit

\* the session's goroutine ends (defer conn.Close()); the listener accepts the next one
EndSession ==
    /\ sPc \in {"relay", "closed"}
    /\ sPc' = "idle"
    /\ sKind' = "none"
    /\ sNow' = 0
    /\ sSentTs' = 0
    /\ sStream' = <<>>
    /\ sPos' = 0
    /\ sTsRead' = 0
    /\ sGate' = "none"
    /\ sDl' = 0
    /\ sTarget' = NoTarget
    /\ sNamePad' = 0
    /\ sErr' = "none"
    /\ sOk' = FALSE
    /\ sRouted' = FALSE
    /\ sDialed' = FALSE
    /\ sReply' = "none"
    /\ UNCHANGED exceptIngress

MaxAddrRead == 12   \* longest chunk the read of the address returns

IngressNext ==
    \/ \E kind \in {"Tls", "Wss"}, now \in Clocks, off \in TsOffsets :
          \E stream \in ClientStreams(now + off) : Accept(kind, now, off, stream)
    \/ \E res \in {"ok", "tls", "http", "upgrade"} : TransportHandshake(res)
    \/ \E k \in 0..8, err \in BOOLEAN : ReadTs(k, err)
    \/ \E k \in 0..2, err \in BOOLEAN : ReadDl(k, err)
    \/ \E k \in 0..MaxAddrRead, err \in BOOLEAN : ReadAddr(k, err)
    \/ RouteSession
    \/ \E ok \in BOOLEAN : DialSession(ok)
    \/ EndSession

(***************************************************************************)
(* tunneled ingress: properties                                            *)
(***************************************************************************)
Skew == IF sSentTs <= sNow THEN sNow - sSentTs ELSE sSentTs - sNow
InSession == sPc # "idle"

\* C9 (as claimed): a TLS or WSS ingress session whose prelude timestamp is more than 10
\* seconds away from the server clock never has its handshake succeed, never gets a routing
\* decision and never gets an egress dial.
C9_SkewedSessionNotForwarded ==
    (InSession /\ Skew > 10) => (~sOk /\ ~sRouted /\ ~sDialed)

\* C10 (as claimed): when the server has read all eight bytes of the timestamp, a timestamp
\* within 10 seconds of the server clock, behind it or ahead of it, passes the clock test,
\* and a timestamp 11 seconds behind or ahead is rejected.
C10_ClockWindow ==
    (InSession /\ sTsRead = 8) => /\ Skew <= 10 => sGate = "pass"
                                  /\ Skew = 11 => sGate = "reject"

\* the prelude client.TlsRemote / client.WSSRemote writes for a target
ClientPrelude(ts, proto, addr) == PutUint64(ts) \o PreludeTail(proto, addr, TRUE)
\* every read of the handshake returned as many bytes as its buffer holds
FullReads == sTsRead = 8 /\ sPos = 10 + sDl /\ sNamePad = 0

\* C11 (as claimed): when the ingress handshake has read, with full reads and synchronized
\* clocks, the prelude an egress dialer wrote for a target, it yields that target's host,
\* port and protocol tag, and the prelude is consumed, so that the next byte read is the
\* client's first payload byte.
C11_PreludeRoundTrip ==
    \A proto \in Protos, addr \in SentAddrs :
        (sOk /\ sSentTs = sNow /\ FullReads /\ sStream = ClientPrelude(sSentTs, proto, addr))
            => /\ sTarget.Name = ParseAddr(addr, 0).target.Name
               /\ sTarget.IP = ParseAddr(addr, 0).target.IP
               /\ sTarget.Port = ParseAddr(addr, 0).target.Port
               /\ sTarget.Proto = proto
               /\ sPos = Len(sStream)

\* what Handshake returns for the bytes of stream when every read fills its buffer
DeclaredLen(stream) == BeUint16(SubSeq(stream, 9, 10))
FullReadResult(stream, now) ==
    IF ClockRejects(now, BeUint64(SubSeq(stream, 1, 8))) THEN [err |-> "clock", target |-> NoTarget]
    ELSE LET r == ParseAddr(BytesToString(SubSeq(stream, 11, 10 + DeclaredLen(stream))), 0)
         IN  [err |-> r.err, target |-> IF r.err = "none" THEN r.target ELSE NoTarget]
\* C37: the result of the ingress handshake depends only on the bytes the client sent: for
\* every way of splitting them across the transport's reads, short reads included, the
\* handshake yields the target it yields when every read is full.
C37_SplitIndependent ==
    (InSession /\ Len(sStream) >= 10 + DeclaredLen(sStream)) =>
        /\ sOk => /\ FullReadResult(sStream, sNow).err = "none"
                  /\ sTarget = FullReadResult(sStream, sNow).target
                  /\ sNamePad = 0
        /\ (sPc = "closed" /\ sErr \notin {"none", "read", "tls", "http", "upgrade"})
               => sErr = FullReadResult(sStream, sNow).err
\* with full reads the handshake returns that result
C37_FullReadsAgree ==
    (InSession /\ FullReads /\ Len(sStream) >= 10 + DeclaredLen(sStream)) =>
        /\ sOk => /\ FullReadResult(sStream, sNow).err = "none"
                  /\ sTarget = FullReadResult(sStream, sNow).target
        /\ (sPc = "closed" /\ sErr \notin {"none", "read", "tls", "http", "upgrade"})
               => sErr = FullReadResult(sStream, sNow).err
C37_FullReadsWitness == sOk /\ FullReads /\ sTarget.Name # <<>>

(***************************************************************************)
(* SOCKS5 / HTTP ingress (server.SocketServer)                             *)
(*                                                                         *)
(* Start accepts connections and runs one goroutine per connection:        *)
(* Handshake, route.GetRemote, remote.Handshake, relay. Handshake recovers *)
(* panics; the goroutine of Start does not, so a panic raised there stops  *)
(* the process.                                                            *)
(***************************************************************************)
CRLF == <<Chr(13), Chr(10)>>

\* strings.Split(s, sep) for a separator of several characters
RECURSIVE SplitStr(_, _)
SplitStr(s, sep) ==
    IF ~Contains(s, sep) THEN <<s>>
    ELSE LET i == CHOOSE k \in 0..(Len(s) - Len(sep)) :
                      /\ SubSeq(s, k + 1, k + Len(sep)) = sep
                      /\ \A j \in 0..(k - 1) : SubSeq(s, j + 1, j + Len(sep)) # sep
         IN  <<SubSeq(s, 1, i)>> \o SplitStr(SubSeq(s, i + Len(sep) + 1, Len(s)), sep)

\* unicode.IsSpace on ASCII
IsSpace(c) == c \in {" ", Chr(9), Chr(10), Chr(11), Chr(12), Chr(13)}

\* strings.Fields
RECURSIVE Fields(_)
Fields(s) ==
    IF Len(s) = 0 THEN <<>>
    ELSE IF IsSpace(s[1]) THEN Fields(Tail(s))
    ELSE LET n == IF \E k \in 1..Len(s) : IsSpace(s[k])
                  THEN (CHOOSE k \in 1..Len(s) : IsSpace(s[k]) /\ \A j \in 1..(k - 1) : ~IsSpace(s[j])) - 1
                  ELSE Len(s)
         IN  <<SubSeq(s, 1, n)>> \o Fields(SubSeq(s, n + 1, Len(s)))

\* strings.TrimSpace
RECURSIVE TrimSpace(_)
TrimSpace(s) ==
    IF Len(s) = 0 THEN s
    ELSE IF IsSpace(s[1]) THEN TrimSpace(Tail(s))
    ELSE IF IsSpace(s[Len(s)]) THEN TrimSpace(SubSeq(s, 1, Len(s) - 1))
    ELSE s

TrimPrefix(s, p) == IF HasPrefix(s, p) THEN SubSeq(s, Len(p) + 1, Len(s)) ELSE s
ToLower(s) == [i \in 1..Len(s) |->
                  IF \E b \in 65..90 : Chr(b) = s[i] THEN Chr(Ord(s[i]) + 32) ELSE s[i]]

\* fmt.Sscanf(p, "%d", &port): an optional sign and the digits that follow it; with no
\* digit the scan fails and port keeps the value cur
Sscanf(p, cur) ==
    LET signed == Len(p) > 0 /\ p[1] \in {"+", "-"}
        body   == IF signed THEN Tail(p) ELSE p
        n      == IF \E k \in 1..Len(body) : ~IsDigit(body[k])
                  THEN (CHOOSE k \in 1..Len(body) : ~IsDigit(body[k]) /\ \A j \in 1..(k - 1) : IsDigit(body[j])) - 1
                  ELSE Len(body)
        v      == DecValue(SubSeq(body, 1, n))
    IN  IF n = 0 THEN cur ELSE IF signed /\ p[1] = "-" THEN 0 - v ELSE v

\* what a handshake returns: err ("none" is nil), the target (nil when isNil), whether a
\* panic was raised and recovered on the way, the replies written to the client and
\* whether a UDP socket was bound and is still open
HsResult(err, target, writes, udp) ==
    [err |-> err, target |-> target, isNil |-> err # "none", panicked |-> FALSE,
     writes |-> writes, udp |-> udp]

\* the target of an HTTP request: host as name or IP, Proto 1
HTTPTarget(host, port) ==
    IF ParseIP(host) # NoIP THEN Target(<<>>, ParseIP(host), port, 1)
    ELSE Target(host, NoIP, port, 1)

\* handleHTTPForward; a result with panicked = TRUE is the index-out-of-range panic at
\* parts[2], before the function returns
handleHTTPForward(request) ==
    LET lines  == SplitStr(request, CRLF)
        parts  == Fields(lines[1])
        url    == parts[2]
        abs    == HasPrefix(url, <<"h", "t", "t", "p", ":", "/", "/">>)
        rest   == TrimPrefix(url, <<"h", "t", "t", "p", ":", "/", "/">>)
        slash  == Index(rest, "/")
        hdrs   == {i \in 2..Len(lines) : HasPrefix(ToLower(lines[i]), <<"h", "o", "s", "t", ":">>)}
        hdr    == lines[CHOOSE i \in hdrs : \A j \in hdrs : i <= j]
        host0  == IF abs THEN (IF slash > 1 THEN SubSeq(rest, 1, slash - 1) ELSE rest)
                  ELSE IF hdrs = {} THEN <<>>
                  ELSE TrimSpace(TrimPrefix(TrimSpace(TrimPrefix(hdr, <<"H", "o", "s", "t", ":">>)),
                                            <<"h", "o", "s", "t", ":">>))
        hp     == SplitHostPort(host0)
        host   == IF hp.ok THEN hp.host ELSE host0
        port   == IF hp.ok THEN Sscanf(hp.port, 80) ELSE 80
    IN  IF Len(parts) < 2 THEN HsResult("invalid HTTP request format", NoTarget, <<>>, FALSE)
        ELSE IF ~abs /\ ~HasPrefix(url, <<"/">>) THEN HsResult("invalid URL format", NoTarget, <<>>, FALSE)
        ELSE IF host0 = <<>> THEN HsResult("no host found in request", NoTarget, <<>>, FALSE)
        ELSE IF Len(parts) < 3
             THEN [HsResult("none", HTTPTarget(host, port), <<>>, FALSE) EXCEPT !.panicked = TRUE]
        ELSE HsResult("none", HTTPTarget(host, port), <<>>, FALSE)

\* handleHTTPProxy. hdrErr: a read for the rest of the header block fails; wErr: the write
\* of the 200 response fails
handleHTTPProxy(request, hdrErr, wErr) ==
    LET lines == SplitStr(request, CRLF)
        parts == Fields(lines[1])
        hp    == SplitHostPort(parts[2])
        host  == IF hp.ok THEN hp.host ELSE parts[2]
        port  == IF hp.ok THEN Sscanf(hp.port, 443) ELSE 443
    IN  IF ~HasPrefix(request, <<"C", "O", "N", "N", "E", "C", "T", " ">>) THEN handleHTTPForward(request)
        ELSE IF Len(parts) < 2 THEN HsResult("invalid HTTP CONNECT request format", NoTarget, <<>>, FALSE)
        ELSE IF ~Contains(request, CRLF \o CRLF) /\ hdrErr
             THEN HsResult("failed to read HTTP headers", NoTarget, <<>>, FALSE)
        ELSE IF wErr THEN HsResult("failed to send HTTP 200 response", NoTarget, <<>>, FALSE)
        ELSE HsResult("none", HTTPTarget(host, port), <<"200">>, FALSE)

Version5 == 5
CmdConnect == 1
CmdUDPAssociate == 3
ATypIP4 == 1
ATypDomain == 3
ATypIP6 == 4

\* the SOCKS5 part of Handshake, after the hello was read. hello, cmd: the bytes the two
\* reads returned into the one 4096-byte buffer (the second read overwrites the head of
\* the first); a failed read is an empty cmd with cmdErr. w1Err, udpErr, w2Err, w3Err:
\* failure of the hello response, of net.ListenUDP, of the UDP reply and of the command
\* response.
socks5(hello, w1Err, cmd, cmdErr, udpErr, w2Err, w3Err) ==
    LET buf(i) == IF i <= Len(cmd) THEN cmd[i] ELSE IF i <= Len(hello) THEN hello[i] ELSE 0
        c     == buf(2)
        atyp  == buf(4)
        udp   == c = CmdUDPAssociate
        l     == IF atyp = ATypIP4 THEN 6 ELSE IF atyp = ATypIP6 THEN 18 ELSE 2 + buf(5)
        off   == IF atyp = ATypDomain THEN 5 ELSE 4
        name  == BytesToString([i \in 1..(l - 2) |-> buf(off + i)])
        ip    == [i \in 1..(l - 2) |-> buf(off + i)]
        port  == buf(off + l - 1) * 256 + buf(off + l)
        proto == IF udp THEN 3 ELSE 1
        w     == <<"hello">> \o (IF udp THEN <<"udp">> ELSE <<>>)
    IN  IF hello[1] # Version5 THEN HsResult("unsupported socks version", NoTarget, <<>>, FALSE)
        ELSE IF w1Err THEN HsResult("failed to write hello response", NoTarget, <<>>, FALSE)
        ELSE IF cmdErr \/ Len(cmd) < 7 THEN HsResult("failed to read command", NoTarget, <<"hello">>, FALSE)
        ELSE IF c \notin {CmdConnect, CmdUDPAssociate}
             THEN HsResult("unsuppoted command", NoTarget, <<"hello">>, FALSE)
        ELSE IF udp /\ udpErr THEN HsResult("cannot listen udp", NoTarget, <<"hello">>, FALSE)
        ELSE IF udp /\ w2Err THEN HsResult("reply accept udp err", NoTarget, <<"hello">>, TRUE)
        ELSE IF atyp \notin {ATypIP4, ATypIP6, ATypDomain}
             THEN HsResult("unknown address type", NoTarget, w, udp)
        ELSE IF 4096 - off < l THEN HsResult("short command request", NoTarget, w, udp)
        ELSE IF w3Err THEN HsResult("failed to write command response", NoTarget, w, udp)
        ELSE HsResult("none",
                      IF atyp = ATypDomain THEN Target(name, NoIP, port, proto)
                      ELSE Target(<<>>, ip, port, proto),
                      w \o <<"connect">>, udp)

\* SocketServer.Handshake as its caller sees it. in: the inputs of one connection. A panic
\* below is recovered by the deferred function, which logs it and assigns nothing: the
\* results are unnamed, so the caller gets (nil, nil, nil).
Handshake(in) ==
    LET h == in.hello
        r == IF in.helloErr \/ Len(h) = 0 THEN HsResult("failed to read hello", NoTarget, <<>>, FALSE)
             ELSE IF Chr(h[1]) \in {"C", "G", "P", "D", "H", "O"}
                  THEN handleHTTPProxy(BytesToString(h), in.hdrErr, in.wErr)
             ELSE socks5(h, in.wErr, in.cmd, in.cmdErr, in.udpErr, in.w2Err, in.w3Err)
    IN  IF r.panicked
        THEN [err |-> "none", target |-> NoTarget, isNil |-> TRUE, panicked |-> TRUE,
              writes |-> r.writes, udp |-> r.udp]
        ELSE r

Sessions == {1, 2}

\* the first read of a connection
HelloForward   == StringToBytes(<<"G", "E", "T", " ", "h", "t", "t", "p", ":", "/", "/", "b", ".", "o", "r", "g", "/",
                                  " ", "H", "T", "T", "P", "/", "1", ".", "1">>) \o <<13, 10, 13, 10>>
HelloTwoFields == StringToBytes(<<"G", "E", "T", " ", "h", "t", "t", "p", ":", "/", "/", "b", ".", "o", "r", "g", "/">>)
HelloOneField  == StringToBytes(<<"G", "E", "T">>)
HelloRelative  == StringToBytes(<<"G", "E", "T", " ", "/", " ", "H", "T", "T", "P", "/", "1", ".", "1">>) \o <<13, 10>>
                  \o StringToBytes(<<"H", "o", "s", "t", ":", " ", "x", ".", "i", "o">>) \o <<13, 10, 13, 10>>
HelloBadURL    == StringToBytes(<<"G", "E", "T", " ", "b", ".", "o", "r", "g", " ", "H", "T", "T", "P", "/", "1", ".", "1">>)
HelloConnect   == StringToBytes(<<"C", "O", "N", "N", "E", "C", "T", " ", "8", ".", "8", ".", "8", ".", "8", ":", "4", "4", "3",
                                  " ", "H", "T", "T", "P", "/", "1", ".", "1">>) \o <<13, 10>>
HelloSocks     == <<Version5, 1, 0>>
HelloSocks4    == <<4, 1, 0>>
HttpHellos     == {HelloForward, HelloTwoFields, HelloOneField, HelloRelative, HelloBadURL, HelloConnect}

\* the second read of a SOCKS5 connection: CONNECT b.org:80, CONNECT 8.8.8.8:443,
\* UDP ASSOCIATE 0.0.0.0:0, BIND, an unknown address type, and a CONNECT whose domain is
\* cut after two of its five bytes
Commands == { <<5, CmdConnect, 0, ATypDomain, 5>> \o StringToBytes(NameOrg) \o <<0, 80>>,
              <<5, CmdConnect, 0, ATypIP4, 8, 8, 8, 8, 1, 187>>,
              <<5, CmdUDPAssociate, 0, ATypIP4, 0, 0, 0, 0, 0, 0>>,
              <<5, 2, 0, ATypIP4, 8, 8, 8, 8, 0, 80>>,
              <<5, CmdConnect, 0, 9, 8, 8, 8, 8, 0, 80>>,
              <<5, CmdConnect, 0, ATypDomain, 5, 98, 46>> }

\* one connection's inputs: what its reads return and which one I/O step fails, if any
Faults == {"none", "hello", "hdr", "w1", "cmd", "udp", "w2", "w3"}
Input(hello, cmd, f) ==
    [hello |-> hello, cmd |-> cmd, helloErr |-> f = "hello", hdrErr |-> f = "hdr",
     wErr |-> f = "w1", cmdErr |-> f = "cmd", udpErr |-> f = "udp", w2Err |-> f = "w2",
     w3Err |-> f = "w3"]
Inputs == {Input(h, <<>>, f) : h \in HttpHellos \cup {HelloSocks4}, f \in {"none", "hello", "hdr", "w1"}}
          \cup {Input(HelloSocks, c, f) : c \in Commands, f \in Faults \ {"hdr"}}

NoHs == [HsResult("unset", NoTarget, <<>>, FALSE) EXCEPT !.isNil = FALSE]
NoSession == [pc |-> "idle", hello |-> <<>>, hs |-> NoHs, failed |-> FALSE, verdict |-> "none",
              dialed |-> FALSE, html |-> FALSE]

\* Start: l.Accept returns a connection and its goroutine runs s.Handshake; on an error
\* the goroutine logs it and returns
SocketHandshake(s, in) ==
    /\ procUp
    /\ socks[s].pc = "idle"
    /\ LET hs == Handshake(in) IN
       socks' = [socks EXCEPT ![s] = [NoSession EXCEPT !.pc = IF hs.err # "none" THEN "closed" ELSE "shaken",
                                                       !.hello = in.hello,
                                                       !.hs = hs,
                                                       !.failed = hs.err # "none"]]
    /\ UNCHANGED procUp
    /\ UNCHANGED exceptSocket

\* Start: remote := route.GetRemote(gCtx, target). With a nil target GetRemote returns
\* DirectRemote when out.type is direct and otherwise panics in target.String(), in a
\* goroutine that recovers nothing.
SocketRoute(s, rsp) ==
    /\ procUp
    /\ socks[s].pc = "shaken"
    /\ LET t == socks[s].hs.target
           v == IF RouteBeforeDoH(t) = "query" THEN RouteAfterDoH(rsp) ELSE RouteBeforeDoH(t)
       IN  IF socks[s].hs.isNil /\ outType # RemoteTypeDirect
           THEN /\ procUp' = FALSE
                /\ socks' = [socks EXCEPT ![s].pc = "crashed"]
           ELSE /\ procUp' = procUp
                /\ socks' = [socks EXCEPT ![s].pc = "routed",
                                          ![s].verdict = IF socks[s].hs.isNil THEN "Direct" ELSE v]
    /\ UNCHANGED exceptSocket

\* Start: rConn, err := remote.Handshake(gCtx, target) and what follows it. With a nil
\* target DirectRemote.Handshake panics at target.Proto, recovers and returns (nil, nil);
\* Start goes on to "if target.Proto == 3" and panics there.
SocketDial(s, ok) ==
    /\ procUp
    /\ socks[s].pc = "routed"
    /\ IF socks[s].hs.isNil
       THEN /\ procUp' = FALSE
            /\ socks' = [socks EXCEPT ![s].pc = "crashed"]
       ELSE /\ procUp' = procUp
            /\ socks' = [socks EXCEPT ![s].pc = IF ok THEN "relay" ELSE "closed",
                                      ![s].dialed = TRUE,
                                      ![s].html = ~ok]
    /\ UNCHANGED exceptSocket

\* the goroutine returns (deferred conn.Close()) and the slot takes the next connection
SocketEnd(s) ==
    /\ procUp
    /\ socks[s].pc \in {"relay", "closed"}
    /\ socks' = [socks EXCEPT ![s] = NoSession]
    /\ UNCHANGED procUp
    /\ UNCHANGED exceptSocket

SocketInit ==
    /\ procUp = TRUE
    /\ socks = [s \in Sessions |-> NoSession]
SocketIdle == SocketInit

SocketNext ==
    \/ \E s \in Sessions, in \in Inputs : SocketHandshake(s, in)
    \/ \E s \in Sessions, rsp \in DohResults : SocketRoute(s, rsp)
    \/ \E s \in Sessions, ok \in BOOLEAN : SocketDial(s, ok)
    \/ \E s \in Sessions : SocketEnd(s)

(***************************************************************************)
(* SOCKS5 / HTTP ingress: properties                                       *)
(***************************************************************************)
\* C12 (as claimed): a failure on one ingress connection, a panic raised and recovered
\* inside the handshake included, ends only that session: the handshake is reported as
\* failed, no routing decision and no dial is made for the session, and the process keeps
\* running.
C12_SessionFailureContained ==
    \A s \in Sessions :
        (socks[s].hs.panicked \/ socks[s].hs.err \notin {"none", "unset"})
            => /\ socks[s].failed
               /\ socks[s].verdict = "none"
               /\ ~socks[s].dialed
               /\ procUp

(***************************************************************************)
(* process life cycle (package server init, main)                          *)
(*                                                                         *)
(* The ingress is started by init() of package server, which runs before   *)
(* main.main and calls s.Start(listener) on the initialising goroutine.    *)
(* main installs the signal handler; until signal.Notify has run, SIGINT   *)
(* and SIGTERM have their default effect and end the process at once.      *)
(***************************************************************************)
InTypes == {"socket", "tls", "wss"}
Signals == {"SIGINT", "SIGTERM"}
MaxAccepts == 2

\* init(): systemproxy.Apply when the system proxy is enabled
InitApplyProxy ==
    /\ mPc = "init"
    /\ mPc' = "tun"
    /\ mSys' = [mSys EXCEPT !.proxySet = mCfg.proxy]
    /\ UNCHANGED <<mCfg, mSig, mShut>>
    /\ UNCHANGED exceptMain

\* init(): tun.NewService (BackupRoutes, SetupRoutes) and "go tunService.Start()"; an
\* error of NewService is os.Exit(-1)
InitTun(ok) ==
    /\ mPc = "tun"
    /\ IF ~mCfg.tun THEN /\ mPc' = "listen"
                         /\ mSys' = mSys
       ELSE IF ok THEN /\ mPc' = "listen"
                       /\ mSys' = [mSys EXCEPT !.routes = TRUE, !.tun = "starting"]
       ELSE /\ mPc' = "exited"
            /\ mSys' = mSys
    /\ UNCHANGED <<mCfg, mSig, mShut>>
    /\ UNCHANGED exceptMain

\* the goroutine of tunService.Start: tun2socks.Start returns
TunStart(ok) ==
    /\ mPc # "exited"
    /\ mSys.tun = "starting"
    /\ mSys' = [mSys EXCEPT !.tun = IF ok THEN "started" ELSE "failed"]
    /\ UNCHANGED <<mCfg, mPc, mSig, mShut>>
    /\ UNCHANGED exceptMain

\* init(): net.Listen, NewServer, s.Start(listener); a Listen error is os.Exit(-1)
InitListen(ok) ==
    /\ mPc = "listen"
    /\ mPc' = IF ok THEN "serving" ELSE "exited"
    /\ mSys' = [mSys EXCEPT !.listening = ok, !.tun = IF ok THEN @ ELSE "none"]
    /\ UNCHANGED <<mCfg, mSig, mShut>>
    /\ UNCHANGED exceptMain

\* Start: l.Accept returns a connection
ServeAccept ==
    /\ mPc = "serving"
    /\ mSys.accepted < MaxAccepts
    /\ mSys' = [mSys EXCEPT !.accepted = @ + 1]
    /\ UNCHANGED <<mCfg, mPc, mSig, mShut>>
    /\ UNCHANGED exceptMain

\* WSSServer.Start: http.Serve returns an error, Start logs it and returns, init()
\* returns and main.main begins. SocketServer.Start and TlsServer.Start never return.
ServeReturns ==
    /\ mPc = "serving"
    /\ mCfg.inType = "wss"
    /\ mPc' = "main"
    /\ UNCHANGED <<mCfg, mSys, mSig, mShut>>
    /\ UNCHANGED exceptMain

\* main: signal.Notify(quit, SIGINT, SIGTERM), go func() { sig := <-quit ... }, <-ctx.Done()
MainNotify ==
    /\ mPc = "main"
    /\ mPc' = "wait"
    /\ mSig' = [mSig EXCEPT !.notify = TRUE]
    /\ UNCHANGED <<mCfg, mSys, mShut>>
    /\ UNCHANGED exceptMain

\* what the operating system does to a process that ends: its sockets and its device
\* handle are closed; host routes and system proxy settings stay as they are
Ended(sys) == [sys EXCEPT !.listening = FALSE, !.tun = "none"]

\* the process is serving: Start is accepting and the virtual-interface service started
Serving == mPc = "serving" /\ mSys.listening /\ mSys.tun = "started"

\* SIGINT or SIGTERM arrives: it goes to the quit channel if signal.Notify has run, and
\* otherwise the Go runtime ends the process
Signal(sig) ==
    /\ mPc # "exited"
    /\ mSig.got = "none"
    /\ mSig' = [mSig EXCEPT !.got = sig, !.serving = Serving]
    /\ IF mSig.notify THEN /\ mShut' = "signalled"
                           /\ UNCHANGED <<mPc, mSys>>
       ELSE /\ mPc' = "exited"
            /\ mSys' = Ended(mSys)
            /\ mShut' = mShut
    /\ UNCHANGED mCfg
    /\ UNCHANGED exceptMain

\* the shutdown goroutine: server.StopTunService(), that is Service.Stop: tun2socks.Stop
\* and routeMgr.RestoreRoutes when the service exists
ShutdownStopTun ==
    /\ mPc # "exited"
    /\ mShut = "signalled"
    /\ mShut' = "tunStopped"
    /\ mSys' = IF mCfg.tun THEN [mSys EXCEPT !.tun = "none", !.routes = FALSE] ELSE mSys
    /\ UNCHANGED <<mCfg, mPc, mSig>>
    /\ UNCHANGED exceptMain

\* the shutdown goroutine: RestoreSystemProxy when enabled, close(shutdownDone); the
\* handler's select then takes shutdownDone and calls cancel()
ShutdownRestoreProxy ==
    /\ mPc # "exited"
    /\ mShut = "tunStopped"
    /\ mShut' = "cancelled"
    /\ mSys' = [mSys EXCEPT !.proxySet = IF mCfg.proxy THEN FALSE ELSE @]
    /\ UNCHANGED <<mCfg, mPc, mSig>>
    /\ UNCHANGED exceptMain

\* the handler's select takes shutdownCtx.Done() after 30 s: RestoreSystemProxy when
\* enabled, cancel()
ShutdownTimeout ==
    /\ mPc # "exited"
    /\ mShut \in {"signalled", "tunStopped"}
    /\ mShut' = "cancelled"
    /\ mSys' = [mSys EXCEPT !.proxySet = IF mCfg.proxy THEN FALSE ELSE @]
    /\ UNCHANGED <<mCfg, mPc, mSig>>
    /\ UNCHANGED exceptMain

\* main: <-ctx.Done() returns, the deferred RestoreSystemProxy runs, the process ends
MainExit ==
    /\ mPc = "wait"
    /\ mShut = "cancelled"
    /\ mPc' = "exited"
    /\ mSys' = Ended([mSys EXCEPT !.proxySet = IF mCfg.proxy THEN FALSE ELSE @])
    /\ UNCHANGED <<mCfg, mSig, mShut>>
    /\ UNCHANGED exceptMain

MainInit ==
    /\ mCfg \in [proxy : BOOLEAN, tun : BOOLEAN, inType : InTypes]
    /\ mPc = "init"
    /\ mSys = [proxySet |-> FALSE, routes |-> FALSE, tun |-> "none", listening |-> FALSE, accepted |-> 0]
    /\ mSig = [got |-> "none", notify |-> FALSE, serving |-> FALSE]
    /\ mShut = "none"
MainIdle ==
    /\ mCfg = [proxy |-> FALSE, tun |-> FALSE, inType |-> "socket"]
    /\ mPc = "init"
    /\ mSys = [proxySet |-> FALSE, routes |-> FALSE, tun |-> "none", listening |-> FALSE, accepted |-> 0]
    /\ mSig = [got |-> "none", notify |-> FALSE, serving |-> FALSE]
    /\ mShut = "none"

MainNext ==
    \/ InitApplyProxy
    \/ \E ok \in BOOLEAN : InitTun(ok)
    \/ \E ok \in BOOLEAN : TunStart(ok)
    \/ \E ok \in BOOLEAN : InitListen(ok)
    \/ ServeAccept
    \/ ServeReturns
    \/ MainNotify
    \/ \E sig \in Signals : Signal(sig)
    \/ ShutdownStopTun
    \/ ShutdownRestoreProxy
    \/ ShutdownTimeout
    \/ MainExit

(***************************************************************************)
(* process life cycle: properties                                          *)
(***************************************************************************)
\* C13 (as claimed): when SIGINT or SIGTERM arrives while the process is serving (listener
\* accepting, virtual-interface service started), the process stops accepting, stops the
\* virtual-interface service, restores the host routes and, with the system proxy enabled,
\* the system proxy settings, all before it exits: a process that has exited after such a
\* signal has left none of them in place.
C13_GracefulShutdown ==
    (mPc = "exited" /\ mSig.serving)
        => /\ ~mSys.listening
           /\ mSys.tun = "none"
           /\ ~mSys.routes
           /\ (mCfg.proxy => ~mSys.proxySet)

(***************************************************************************)
(* host route manager (route.RouteManager)                                 *)
(*                                                                         *)
(* The host routing table is a set of routes; a route command that fails   *)
(* leaves the table as it was.                                             *)
(***************************************************************************)
\* one route: network a.b.c.d/bits through the original gateway or the virtual interface
HostRoute(network, bits, via) == [net |-> network, bits |-> bits, via |-> via]
DefaultViaTun == HostRoute(<<0, 0, 0, 0>>, 0, "tun")

\* the networks of addLocalNetworkRoutes, in its order
LocalNetworks == << HostRoute(<<127, 0, 0, 0>>, 8, "orig"), HostRoute(<<10, 0, 0, 0>>, 8, "orig"),
                    HostRoute(<<172, 16, 0, 0>>, 12, "orig"), HostRoute(<<192, 168, 0, 0>>, 16, "orig"),
                    HostRoute(<<169, 254, 0, 0>>, 16, "orig") >>

\* the routes addWhiteListRoutes asks for, in rule order: a CIDR rule gives its network, an
\* IP range rule gives start/32, other rules give none
RECURSIVE WhiteListRoutes(_)
WhiteListRoutes(rules) ==
    IF rules = <<>> THEN <<>>
    ELSE (IF Head(rules).kind = "cidr" THEN <<HostRoute(Head(rules).net, Head(rules).bits, "orig")>>
          ELSE IF Head(rules).kind = "range" THEN <<HostRoute(Head(rules).start, 32, "orig")>>
          ELSE <<>>)
         \o WhiteListRoutes(Tail(rules))

\* the tables the host can have before the manager runs, and what net.LookupIP can return
\* for out.remote_addr ("none": remote_addr is empty, "err": the lookup fails)
HostTables == { {HostRoute(<<0, 0, 0, 0>>, 0, "orig")},
                {HostRoute(<<0, 0, 0, 0>>, 0, "orig"), HostRoute(<<192, 168, 1, 0>>, 24, "orig")} }
Lookups == { [res |-> "none", ips |-> <<>>], [res |-> "err", ips |-> <<>>],
             [res |-> "ok", ips |-> <<IpAbroad>>], [res |-> "ok", ips |-> <<IpAbroad, IpCn>>] }

\* the routes one loop of SetupRoutes asks for
StageRoutes(stage) ==
    IF stage = "peer" THEN [i \in 1..Len(rmLookup.ips) |-> HostRoute(rmLookup.ips[i], 32, "orig")]
    ELSE IF stage = "local" THEN LocalNetworks
    ELSE WhiteListRoutes(whiteRules)
NextStage(stage) == IF stage = "peer" THEN "local" ELSE IF stage = "local" THEN "white" ELSE "default"

\* BackupRoutes: getDefaultGateway; on an error SetupRoutes returns it
BackupRoutes(ok) ==
    /\ rmPc = "new"
    /\ rmPc' = IF ok THEN "peer" ELSE "failed"
    /\ rmBackedUp' = ok
    /\ rmLog' = [rmLog EXCEPT !.before = rmTable, !.cmdFailed = @ \/ ~ok]
    /\ UNCHANGED <<rmTable, rmLookup, rmIdx>>
    /\ UNCHANGED exceptRm

\* one addRoute of addRemoteServerRoute, addLocalNetworkRoutes or addWhiteListRoutes: a
\* failure is logged as a warning and the loop goes on
AddRoute(ok) ==
    /\ rmPc \in {"peer", "local", "white"}
    /\ rmIdx < Len(StageRoutes(rmPc))
    /\ rmIdx' = rmIdx + 1
    /\ rmTable' = IF ok THEN rmTable \cup {StageRoutes(rmPc)[rmIdx + 1]} ELSE rmTable
    /\ rmLog' = [rmLog EXCEPT !.cmdFailed = @ \/ ~ok, !.peerFailed = @ \/ (rmPc = "peer" /\ ~ok)]
    /\ UNCHANGED <<rmPc, rmBackedUp, rmLookup>>
    /\ UNCHANGED exceptRm

\* the loop of the stage is over and the function returns nil
StageDone ==
    /\ rmPc \in {"peer", "local", "white"}
    /\ rmIdx = Len(StageRoutes(rmPc))
    /\ rmPc' = NextStage(rmPc)
    /\ rmIdx' = 0
    /\ UNCHANGED <<rmTable, rmBackedUp, rmLookup, rmLog>>
    /\ UNCHANGED exceptRm

\* setDefaultRoute: the one step of SetupRoutes whose error is returned
SetDefaultRoute(ok) ==
    /\ rmPc = "default"
    /\ rmPc' = IF ok THEN "done" ELSE "failed"
    /\ rmTable' = IF ok THEN rmTable \cup {DefaultViaTun} ELSE rmTable
    /\ rmLog' = [rmLog EXCEPT !.cmdFailed = @ \/ ~ok, !.setupOk = ok]
    /\ UNCHANGED <<rmBackedUp, rmLookup, rmIdx>>
    /\ UNCHANGED exceptRm

\* RestoreRoutes (Service.Stop, or NewService after a failed SetupRoutes): with backedUp
\* set it deletes the default route, logs a failure, and clears backedUp
RestoreRoutes(ok) ==
    /\ rmPc \in {"done", "failed"}
    /\ ok => DefaultViaTun \in rmTable
    /\ rmPc' = "restored"
    /\ rmBackedUp' = FALSE
    /\ rmTable' = IF rmBackedUp /\ ok THEN rmTable \ {DefaultViaTun} ELSE rmTable
    /\ rmLog' = [rmLog EXCEPT !.cmdFailed = @ \/ (rmBackedUp /\ ~ok)]
    /\ UNCHANGED <<rmLookup, rmIdx>>
    /\ UNCHANGED exceptRm

RmInit ==
    /\ rmTable \in HostTables
    /\ rmLookup \in Lookups
    /\ rmPc = "new"
    /\ rmBackedUp = FALSE
    /\ rmIdx = 0
    /\ rmLog = [before |-> {}, cmdFailed |-> FALSE, peerFailed |-> FALSE, setupOk |-> FALSE]
RmIdle ==
    /\ rmTable = {}
    /\ rmLookup = [res |-> "none", ips |-> <<>>]
    /\ rmPc = "new"
    /\ rmBackedUp = FALSE
    /\ rmIdx = 0
    /\ rmLog = [before |-> {}, cmdFailed |-> FALSE, peerFailed |-> FALSE, setupOk |-> FALSE]

RmNext ==
    \/ \E ok \in BOOLEAN : BackupRoutes(ok)
    \/ \E ok \in BOOLEAN : AddRoute(ok)
    \/ StageDone
    \/ \E ok \in BOOLEAN : SetDefaultRoute(ok)
    \/ \E ok \in BOOLEAN : RestoreRoutes(ok)

(***************************************************************************)
(* host route manager: properties                                          *)
(***************************************************************************)
\* C14 (as claimed): if installing the /32 route of a resolved tunnel-peer address fails,
\* SetupRoutes aborts with an error and the default route at the virtual interface is not
\* installed in that run.
C14_PeerRouteFailureAborts ==
    rmLog.peerFailed => (rmPc \notin {"local", "white", "default", "done"} /\ DefaultViaTun \notin rmTable)

\* C15 (as claimed): after SetupRoutes succeeded and RestoreRoutes ran, all route commands
\* having succeeded, the host routing table is the table from before SetupRoutes.
C15_RestoreRoundTrip ==
    (rmPc = "restored" /\ rmLog.setupOk /\ ~rmLog.cmdFailed) => rmTable = rmLog.before

(***************************************************************************)
(* original-interface dialer (common.GetOriginalInterfaceDialer) and the   *)
(* outbound connections of the dialers and of the DoH client               *)
(***************************************************************************)
Threads == {1, 2}
MaxDialCalls == 4
LocalIPs == {IpLan, IpTen}

\* &net.Dialer{LocalAddr: &net.TCPAddr{IP: ip}} and &net.Dialer{}; NilDialer is the nil
\* pointer globalDialer starts with
Dialer(ip) == [set |-> TRUE, local |-> ip]
NilDialer == [set |-> FALSE, local |-> NoIP]
NoThread == [pc |-> "idle", op |-> "none", ip |-> NoIP, ret |-> NilDialer, want |-> NoIP, sets |-> 0]

\* the IP a call that starts now is promised: the one of the last completed
\* SetOriginalInterfaceIP, if no other one is running
Promised == IF gdSet.started = gdSet.finished THEN gdSet.last ELSE NoIP

\* a goroutine calls SetOriginalInterfaceIP(ip) (a nil ip returns at once),
\* GetOriginalInterfaceDialer(), DirectRemote.Handshake or doh.New()
GdCall(t, op, ip) ==
    /\ gdThr[t].pc \in {"idle", "returned"}
    /\ gdCalls < MaxDialCalls
    /\ op = "DohNew" => (~gdDoh.set /\ \A u \in Threads : gdThr[u].op # "DohNew")
    /\ gdCalls' = gdCalls + 1
    /\ gdThr' = [gdThr EXCEPT ![t] =
                    [pc |-> IF op = "Set" THEN (IF ip = NoIP THEN "returned" ELSE "lock") ELSE "once",
                     op |-> op, ip |-> ip, ret |-> NilDialer, want |-> Promised, sets |-> gdSet.started]]
    /\ gdSet' = IF op = "Set" /\ ip # NoIP THEN [gdSet EXCEPT !.started = @ + 1] ELSE gdSet
    /\ UNCHANGED <<gdDialer, gdOnce, gdMu, gdDoh, gdConns>>
    /\ UNCHANGED exceptGd

\* SetOriginalInterfaceIP: globalDialerMu.Lock()
SetLock(t) ==
    /\ gdThr[t].pc = "lock"
    /\ gdMu = 0
    /\ gdMu' = t
    /\ gdThr' = [gdThr EXCEPT ![t].pc = "store"]
    /\ UNCHANGED <<gdDialer, gdOnce, gdSet, gdDoh, gdConns, gdCalls>>
    /\ UNCHANGED exceptGd

\* SetOriginalInterfaceIP: globalDialer = &net.Dialer{LocalAddr: ...}, log, deferred Unlock
SetStore(t) ==
    /\ gdThr[t].pc = "store"
    /\ gdDialer' = Dialer(gdThr[t].ip)
    /\ gdMu' = 0
    /\ gdSet' = [gdSet EXCEPT !.finished = @ + 1, !.last = gdThr[t].ip]
    /\ gdThr' = [gdThr EXCEPT ![t].pc = "returned"]
    /\ UNCHANGED <<gdOnce, gdDoh, gdConns, gdCalls>>
    /\ UNCHANGED exceptGd

\* GetOriginalInterfaceDialer: globalDialerOnce.Do: the first call stores the unbound
\* default dialer, whatever globalDialer holds, and without globalDialerMu
GetOnce(t) ==
    /\ gdThr[t].pc = "once"
    /\ gdDialer' = IF gdOnce THEN gdDialer ELSE Dialer(NoIP)
    /\ gdOnce' = TRUE
    /\ gdThr' = [gdThr EXCEPT ![t].pc = "read"]
    /\ UNCHANGED <<gdMu, gdSet, gdDoh, gdConns, gdCalls>>
    /\ UNCHANGED exceptGd

\* GetOriginalInterfaceDialer: RLock, return globalDialer, RUnlock
GetRead(t) ==
    /\ gdThr[t].pc = "read"
    /\ gdMu = 0
    /\ gdThr' = [gdThr EXCEPT ![t].pc = IF gdThr[t].op = "Get" THEN "returned" ELSE "got",
                              ![t].ret = gdDialer]
    /\ UNCHANGED <<gdDialer, gdOnce, gdMu, gdSet, gdDoh, gdConns, gdCalls>>
    /\ UNCHANGED exceptGd

\* one outbound connection, its source address, and the address it was promised
Conn(by, local, want) == [by |-> by, local |-> local, want |-> want]

\* DirectRemote.Handshake: dialer.Dial("tcp", target.String()) with the dialer it got
DirectDial(t) ==
    /\ gdThr[t].pc = "got"
    /\ gdThr[t].op = "Direct"
    /\ gdConns' = gdConns \cup {Conn("Direct", gdThr[t].ret.local,
                                     IF gdThr[t].sets = gdSet.started THEN gdThr[t].want ELSE NoIP)}
    /\ gdThr' = [gdThr EXCEPT ![t].pc = "returned"]
    /\ UNCHANGED <<gdDialer, gdOnce, gdMu, gdSet, gdDoh, gdCalls>>
    /\ UNCHANGED exceptGd

\* TlsRemote.Handshake: net.DialTimeout("tcp", remote:443, 10 s); WSSRemote.Handshake:
\* websocket.DefaultDialer.Dial. Neither names a local address.
TunnelDial(t, kind) ==
    /\ gdThr[t].pc \in {"idle", "returned"}
    /\ gdCalls < MaxDialCalls
    /\ gdCalls' = gdCalls + 1
    /\ gdConns' = gdConns \cup {Conn(kind, NoIP, Promised)}
    /\ gdThr' = [gdThr EXCEPT ![t] = [NoThread EXCEPT !.pc = "returned", !.op = kind]]
    /\ UNCHANGED <<gdDialer, gdOnce, gdMu, gdSet, gdDoh>>
    /\ UNCHANGED exceptGd

\* doh.New: createHTTPClient keeps the dialer it got in the transport's DialContext
DohCreate(t) ==
    /\ gdThr[t].pc = "got"
    /\ gdThr[t].op = "DohNew"
    /\ gdDoh' = gdThr[t].ret
    /\ gdThr' = [gdThr EXCEPT ![t].pc = "returned"]
    /\ UNCHANGED <<gdDialer, gdOnce, gdMu, gdSet, gdConns, gdCalls>>
    /\ UNCHANGED exceptGd

\* ECSQuery: c.client.Do opens a connection through the transport of the singleton client
DohDial(t) ==
    /\ gdThr[t].pc \in {"idle", "returned"}
    /\ gdDoh.set
    /\ gdCalls < MaxDialCalls
    /\ gdCalls' = gdCalls + 1
    /\ gdConns' = gdConns \cup {Conn("DoH", gdDoh.local, Promised)}
    /\ gdThr' = [gdThr EXCEPT ![t] = [NoThread EXCEPT !.pc = "returned", !.op = "DohQuery"]]
    /\ UNCHANGED <<gdDialer, gdOnce, gdMu, gdSet, gdDoh>>
    /\ UNCHANGED exceptGd

GdInit ==
    /\ gdDialer = NilDialer
    /\ gdOnce = FALSE
    /\ gdMu = 0
    /\ gdSet = [started |-> 0, finished |-> 0, last |-> NoIP]
    /\ gdThr = [t \in Threads |-> NoThread]
    /\ gdDoh = NilDialer
    /\ gdConns = {}
    /\ gdCalls = 0
GdIdle == GdInit

GdNext ==
    \/ \E t \in Threads, op \in {"Set", "Get", "Direct", "DohNew"}, ip \in LocalIPs \cup {NoIP} :
           GdCall(t, op, IF op = "Set" THEN ip ELSE NoIP)
    \/ \E t \in Threads : SetLock(t)
    \/ \E t \in Threads : SetStore(t)
    \/ \E t \in Threads : GetOnce(t)
    \/ \E t \in Threads : GetRead(t)
    \/ \E t \in Threads : DirectDial(t)
    \/ \E t \in Threads, kind \in {"Tls", "Wss"} : TunnelDial(t, kind)
    \/ \E t \in Threads : DohCreate(t)
    \/ \E t \in Threads : DohDial(t)

(***************************************************************************)
(* original-interface dialer: properties                                   *)
(***************************************************************************)
\* C16 (as claimed): once SetOriginalInterfaceIP(ip) has completed with a non-nil ip, every
\* later GetOriginalInterfaceDialer returns a dialer whose local address is ip, whether or
\* not GetOriginalInterfaceDialer had been called before, under any interleaving.
C16_GetAfterSet ==
    \A t \in Threads :
        (gdThr[t].op = "Get" /\ gdThr[t].pc = "returned" /\ gdThr[t].want # NoIP
         /\ gdThr[t].sets = gdSet.started)
            => gdThr[t].ret = Dialer(gdThr[t].want)

\* C17 (as claimed): once the original-interface IP is set, every outbound connection of
\* the Direct, TLS and WSS dialers and of the DoH HTTPS client has that IP as its source,
\* a DoH client created before the IP was set included.
C17_OutboundSourceBound ==
    \A c \in gdConns : c.want # NoIP => c.local = c.want

(***************************************************************************)
(* virtual-interface packet handler (tun.Handler)                          *)
(*                                                                         *)
(* Start reads packets from the device into one buffer and starts one      *)
(* goroutine per packet (go h.handlePacket). ParseIPPacket copies the two  *)
(* addresses and the protocol; the transport segment (flags, payload) of   *)
(* an IPPacket stays a slice of the read buffer, which the next Read       *)
(* overwrites.                                                             *)
(***************************************************************************)
IPProtocolICMP == 1
IPProtocolTCP == 6
IPProtocolUDP == 17
maxConns == 1000
MaxPackets == 2
MaxBgExits == 1

\* a packet as the handler uses it: destination, protocol, SYN flag, payload (0: none),
\* and whether it is a UDP packet to port 53. Source address and ports are the same for
\* all packets of the model.
Packet(dst, proto, syn, data, dns) == [dst |-> dst, proto |-> proto, syn |-> syn, data |-> data, dns |-> dns]
IpTunNet == <<10, 0, 0, 2>>
FilterSamples == { <<127, 0, 0, 1>>, <<255, 255, 255, 255>>, <<224, 0, 0, 1>>, <<169, 254, 1, 1>>,
                   <<8, 8, 8, 255>>, IpTen, <<172, 16, 0, 1>>, IpLan, IpCn }
Packets == {Packet(ip, IPProtocolTCP, TRUE, 0, FALSE) : ip \in FilterSamples \cup {IpAbroad, IpTunNet}}
           \cup {Packet(IpAbroad, IPProtocolTCP, FALSE, d, FALSE) : d \in 1..2}
           \cup {Packet(IpTunNet, IPProtocolTCP, FALSE, 1, FALSE)}
           \cup {Packet(IpAbroad, IPProtocolUDP, FALSE, 1, FALSE), Packet(IpAbroad, IPProtocolUDP, FALSE, 1, TRUE),
                 Packet(IpAbroad, IPProtocolICMP, FALSE, 1, FALSE)}

\* getConnectionID: addresses, ports and protocol
getConnectionID(pkt) == <<pkt.dst, pkt.proto>>
FlowIds == {getConnectionID(p) : p \in Packets}

\* shouldHandle without its multicast test
shouldHandle_NoMulticast(pkt) ==
    LET dstIP == pkt.dst IN
    ~(\/ IsLoopback(dstIP)
      \/ dstIP = <<255, 255, 255, 255>>
      \/ (dstIP[1] = 169 /\ dstIP[2] = 254)
      \/ (dstIP[1] = 10 /\ (dstIP[2] # 0 \/ dstIP[3] # 0))
      \/ (dstIP[1] = 172 /\ dstIP[2] >= 16 /\ dstIP[2] <= 31)
      \/ (dstIP[1] = 192 /\ dstIP[2] = 168)
      \/ dstIP[4] = 255
      \/ dstIP \in tPeers)

\* shouldHandle
shouldHandle(pkt) ==
    LET dstIP == pkt.dst IN
    IF IsLoopback(dstIP) THEN FALSE
    ELSE IF dstIP = <<255, 255, 255, 255>> THEN FALSE
    ELSE IF dstIP[1] >= 224 /\ dstIP[1] <= 239 THEN FALSE
    ELSE IF dstIP[1] = 169 /\ dstIP[2] = 254 THEN FALSE
    ELSE IF dstIP[1] = 10 /\ (dstIP[2] # 0 \/ dstIP[3] # 0) THEN FALSE
    ELSE IF dstIP[1] = 172 /\ dstIP[2] >= 16 /\ dstIP[2] <= 31 THEN FALSE
    ELSE IF dstIP[1] = 192 /\ dstIP[2] = 168 THEN FALSE
    ELSE IF dstIP[4] = 255 THEN FALSE
    ELSE IF dstIP \in tPeers THEN FALSE
    ELSE TRUE

\* a limit test that lets one more flow in
AtLimit_OneMore(count) == count > maxConns

\* the test of the concurrency limit
AtLimit(count) == count >= maxConns

\* the transport segment a task finds behind its IPPacket (ports, flags, payload): its own
\* packet's while no later packet was read, and afterwards any mix of its own and the one
\* now in the read buffer
Views(k) ==
    LET own == tTasks[k].pkt
        last == tTasks[Len(tTasks)].pkt
    IN  {[syn |-> s, data |-> d, dns |-> n] : s \in {own.syn, last.syn}, d \in {own.data, last.data},
                                               n \in {own.dns, last.dns}}

NoConn == 0
Task(pkt) == [pkt |-> pkt, pc |-> "filter", conn |-> NoConn, full |-> FALSE, effect |-> FALSE]

\* Start: device.Read, ParseIPPacket, go h.handlePacket(ipPkt)
DeviceRead(pkt) ==
    /\ Len(tTasks) < MaxPackets
    /\ tTasks' = Append(tTasks, Task(pkt))
    /\ tReadLog' = IF pkt.proto = IPProtocolTCP /\ ~pkt.syn /\ pkt.data > 0
                   THEN [tReadLog EXCEPT ![getConnectionID(pkt)] = Append(@, pkt.data)]
                   ELSE tReadLog
    /\ UNCHANGED <<tPeers, tTable, tConns, tCount, tBg>>
    /\ UNCHANGED exceptHandler

\* handlePacket up to the lookup in h.connections: shouldHandle, protocol test, DNS
\* branch, connID, RLock lookup
TaskFilter(k, v) ==
    /\ tTasks[k].pc = "filter"
    /\ v \in Views(k)
    /\ LET pkt == tTasks[k].pkt
           id  == getConnectionID(pkt)
       IN  tTasks' = [tTasks EXCEPT
               ![k].pc = IF ~shouldHandle(pkt) THEN "done"
                         ELSE IF pkt.proto \notin {IPProtocolTCP, IPProtocolUDP} THEN "done"
                         ELSE IF pkt.proto = IPProtocolUDP /\ v.dns THEN "done"
                         ELSE IF tTable[id] # NoConn THEN "forward"
                         ELSE "count",
               ![k].conn = IF shouldHandle(pkt) /\ pkt.proto \in {IPProtocolTCP, IPProtocolUDP}
                                /\ ~(pkt.proto = IPProtocolUDP /\ v.dns)
                           THEN tTable[id] ELSE NoConn]
    /\ UNCHANGED <<tPeers, tTable, tConns, tCount, tBg, tReadLog>>
    /\ UNCHANGED exceptHandler

\* handlePacket: under connCountMu, drop at the limit or connCount++
TaskCount(k) ==
    /\ tTasks[k].pc = "count"
    /\ IF AtLimit(tCount)
       THEN /\ tTasks' = [tTasks EXCEPT ![k].pc = "done", ![k].full = TRUE]
            /\ tCount' = tCount
       ELSE /\ tTasks' = [tTasks EXCEPT ![k].pc = "syn", ![k].effect = TRUE]
            /\ tCount' = tCount + 1
    /\ UNCHANGED <<tPeers, tTable, tConns, tBg, tReadLog>>
    /\ UNCHANGED exceptHandler

\* the SYN test with a return that leaves the counter incremented
TaskSynCheck_NoDecrement(k, v) ==
    /\ tTasks[k].pc = "syn"
    /\ v \in Views(k)
    /\ tTasks' = [tTasks EXCEPT ![k].pc = IF tTasks[k].pkt.proto = IPProtocolTCP /\ ~v.syn THEN "done" ELSE "create"]
    /\ tCount' = tCount
    /\ UNCHANGED <<tPeers, tTable, tConns, tBg, tReadLog>>
    /\ UNCHANGED exceptHandler

\* handlePacket: a TCP packet without SYN for an unknown flow: connCount--, return
TaskSynCheck(k, v) ==
    /\ tTasks[k].pc = "syn"
    /\ v \in Views(k)
    /\ IF tTasks[k].pkt.proto = IPProtocolTCP /\ ~v.syn
       THEN /\ tTasks' = [tTasks EXCEPT ![k].pc = "done"]
            /\ tCount' = tCount - 1
       ELSE /\ tTasks' = [tTasks EXCEPT ![k].pc = "create"]
            /\ tCount' = tCount
    /\ UNCHANGED <<tPeers, tTable, tConns, tBg, tReadLog>>
    /\ UNCHANGED exceptHandler

\* handlePacket: createConnection (route.GetRemote, remote.Handshake); on an error
\* connCount--, return
TaskCreate(k, ok) ==
    /\ tTasks[k].pc = "create"
    /\ IF ok
       THEN /\ tConns' = Append(tConns, [flow |-> getConnectionID(tTasks[k].pkt), out |-> <<>>,
                                         closed |-> FALSE, live |-> FALSE])
            /\ tTasks' = [tTasks EXCEPT ![k].pc = "insert", ![k].conn = Len(tConns) + 1]
            /\ tCount' = tCount
       ELSE /\ tConns' = tConns
            /\ tTasks' = [tTasks EXCEPT ![k].pc = "done"]
            /\ tCount' = tCount - 1
    /\ UNCHANGED <<tPeers, tTable, tBg, tReadLog>>
    /\ UNCHANGED exceptHandler

\* handlePacket: h.connections[connID] = conn; go h.forwardSocks5ToTun(conn)
TaskInsert(k) ==
    /\ tTasks[k].pc = "insert"
    /\ tTable' = [tTable EXCEPT ![getConnectionID(tTasks[k].pkt)] = tTasks[k].conn]
    /\ tConns' = [tConns EXCEPT ![tTasks[k].conn].live = TRUE]
    /\ tTasks' = [tTasks EXCEPT ![k].pc = "forward"]
    /\ UNCHANGED <<tPeers, tCount, tBg, tReadLog>>
    /\ UNCHANGED exceptHandler

\* handlePacket: forward the payload: a TCP SYN is skipped; a payload is written under
\* conn.mu unless the connection is closed; a write error sets closed
TaskForward(k, v, wok) ==
    /\ tTasks[k].pc = "forward"
    /\ v \in Views(k)
    /\ LET c == tTasks[k].conn
           writes == /\ ~(tTasks[k].pkt.proto = IPProtocolTCP /\ v.syn)
                     /\ v.data > 0
                     /\ ~tConns[c].closed
       IN  tConns' = IF ~writes THEN tConns
                     ELSE IF wok THEN [tConns EXCEPT ![c].out = Append(@, v.data)]
                     ELSE [tConns EXCEPT ![c].closed = TRUE]
    /\ tTasks' = [tTasks EXCEPT ![k].pc = "done"]
    /\ UNCHANGED <<tPeers, tTable, tCount, tBg, tReadLog>>
    /\ UNCHANGED exceptHandler

\* forwardSocks5ToTun leaves its loop (read error, closed, device write error): delete
\* the table entry of its ID, connCount--, close
ForwarderExit(c) ==
    /\ c \in 1..Len(tConns)
    /\ tConns[c].live
    /\ tConns' = [tConns EXCEPT ![c].live = FALSE, ![c].closed = TRUE]
    /\ tTable' = [tTable EXCEPT ![tConns[c].flow] = NoConn]
    /\ tCount' = tCount - 1
    /\ UNCHANGED <<tPeers, tTasks, tBg, tReadLog>>
    /\ UNCHANGED exceptHandler

\* the forwarder of a flow established before the packets of the model leaves its loop
BackgroundExit ==
    /\ tBg.live > 0
    /\ tBg.exits < MaxBgExits
    /\ tBg' = [live |-> tBg.live - 1, exits |-> tBg.exits + 1]
    /\ tCount' = tCount - 1
    /\ UNCHANGED <<tPeers, tTasks, tTable, tConns, tReadLog>>
    /\ UNCHANGED exceptHandler

\* NewHandler, followed by the start of one TCP flow to IpAbroad and of the flows to
\* destinations outside the model that tBg counts
EstablishedFlow == <<IpAbroad, IPProtocolTCP>>
HandlerInit ==
    /\ tPeers \in {{}, {IpCn}}
    /\ tBg \in {[live |-> b, exits |-> 0] : b \in {0, maxConns - 2, maxConns - 1}}
    /\ tCount = tBg.live + 1
    /\ tTasks = <<>>
    /\ tConns = <<[flow |-> EstablishedFlow, out |-> <<>>, closed |-> FALSE, live |-> TRUE]>>
    /\ tTable = [id \in FlowIds |-> IF id = EstablishedFlow THEN 1 ELSE NoConn]
    /\ tReadLog = [id \in FlowIds |-> <<>>]
HandlerIdle ==
    /\ tPeers = {}
    /\ tBg = [live |-> 0, exits |-> 0]
    /\ tCount = 0
    /\ tTasks = <<>>
    /\ tTable = [id \in FlowIds |-> NoConn]
    /\ tConns = <<>>
    /\ tReadLog = [id \in FlowIds |-> <<>>]

HandlerNext ==
    \/ \E pkt \in Packets : DeviceRead(pkt)
    \/ \E k \in 1..Len(tTasks) : \E v \in Views(k) : TaskFilter(k, v)
    \/ \E k \in 1..Len(tTasks) : TaskCount(k)
    \/ \E k \in 1..Len(tTasks) : \E v \in Views(k) : TaskSynCheck(k, v)
    \/ \E k \in 1..Len(tTasks), ok \in BOOLEAN : TaskCreate(k, ok)
    \/ \E k \in 1..Len(tTasks) : TaskInsert(k)
    \/ \E k \in 1..Len(tTasks) : \E v \in Views(k), wok \in BOOLEAN : TaskForward(k, v, wok)
    \/ \E c \in 1..Len(tConns) : ForwarderExit(c)
    \/ BackgroundExit

(***************************************************************************)
(* virtual-interface packet handler: properties                            *)
(***************************************************************************)
\* the destinations the claim lists: loopback, 255.255.255.255, 224.0.0.0/4,
\* 169.254.0.0/16, last octet 255, 10.0.0.0/8 outside 10.0.0.0/24, 172.16.0.0/12,
\* 192.168.0.0/16, a known remote-peer address
Excluded(ip) ==
    \/ ip[1] = 127
    \/ ip = <<255, 255, 255, 255>>
    \/ ip[1] \div 16 = 14
    \/ (ip[1] = 169 /\ ip[2] = 254)
    \/ ip[4] = 255
    \/ (ip[1] = 10 /\ ~(ip[2] = 0 /\ ip[3] = 0))
    \/ (ip[1] = 172 /\ ip[2] \div 16 = 1)
    \/ (ip[1] = 192 /\ ip[2] = 168)
    \/ ip \in tPeers

\* C18: a packet to an excluded destination never causes a routing decision, a dial, a
\* flow-table insertion or a change of the concurrency counter.
C18_ExcludedPacketsNoEffect ==
    /\ \A k \in 1..Len(tTasks) :
           Excluded(tTasks[k].pkt.dst) => (~tTasks[k].effect /\ tTasks[k].conn = NoConn /\ tTasks[k].pc \in {"filter", "done"})
    /\ \A id \in FlowIds : Excluded(id[1]) => tTable[id] = NoConn
    /\ \A c \in 1..Len(tConns) : ~Excluded(tConns[c].flow[1])
C18_Witness ==
    /\ Len(tTasks) = MaxPackets
    /\ \A k \in 1..Len(tTasks) : Excluded(tTasks[k].pkt.dst) /\ tTasks[k].pc = "done"
    /\ tTasks[1].pkt.dst = IpCn
    /\ tTasks[2].pkt.dst[1] = 224

\* C19: the concurrency counter stays within [0, 1000], and a packet of an unknown flow
\* that finds the counter at 1000 is dropped without a dial.
C19_CounterBounded ==
    /\ tCount >= 0
    /\ tCount <= 1000
    /\ \A k \in 1..Len(tTasks) : tTasks[k].full => (tTasks[k].pc = "done" /\ tTasks[k].conn = NoConn /\ ~tTasks[k].effect)
C19_Witness ==
    /\ tCount = 1000
    /\ \E k \in 1..Len(tTasks) : tTasks[k].full
    /\ \E k \in 1..Len(tTasks) : tTasks[k].effect /\ tTasks[k].conn # NoConn /\ tConns[tTasks[k].conn].live

\* b holds the elements of a in their order (a is a subsequence of b)
RECURSIVE IsSubseq(_, _)
IsSubseq(a, b) ==
    IF a = <<>> THEN TRUE
    ELSE IF b = <<>> THEN FALSE
    ELSE IF Head(a) = Head(b) THEN IsSubseq(Tail(a), Tail(b))
    ELSE IsSubseq(a, Tail(b))

\* C20 (as claimed): for one TCP flow, the payloads of its data segments are written to the
\* egress in the order in which they were read from the device, under every scheduling of
\* the per-packet handler tasks.
C20_PayloadOrder ==
    \A c \in 1..Len(tConns) :
        tConns[c].flow[2] = IPProtocolTCP => IsSubseq(tConns[c].out, tReadLog[tConns[c].flow])

\* the flows of one id whose egress transport is dialed and not yet closed, and those whose
\* return-path forwarder runs
OpenTransports(id) == {c \in 1..Len(tConns) : tConns[c].flow = id /\ (tConns[c].live \/ ~tConns[c].closed)}
RunningForwarders(id) == {c \in 1..Len(tConns) : tConns[c].flow = id /\ tConns[c].live}
\* C35: under any interleaving of concurrently handled packets with the same 5-tuple, at
\* most one egress transport is dialed and at most one return-path forwarder runs for that
\* flow id at any time.
C35_OneFlowPerId ==
    \A id \in FlowIds : Cardinality(OpenTransports(id)) <= 1 /\ Cardinality(RunningForwarders(id)) <= 1

\* the packets whose flow creation is in progress (counted, not yet dropped, failed or
\* handed to a forwarder) and the forwarders that have not done their cleanup
Creating == {k \in 1..Len(tTasks) : tTasks[k].pc \in {"syn", "create", "insert"}}
Forwarding == {c \in 1..Len(tConns) : tConns[c].live}
C36_DialFailureWitness ==
    /\ Len(tTasks) = 1
    /\ tTasks[1].pkt = Packet(IpAbroad, IPProtocolUDP, FALSE, 1, FALSE)
    /\ tTasks[1].effect /\ tTasks[1].pc = "done" /\ tTasks[1].conn = NoConn
    /\ tCount = tBg.live + 1

(***************************************************************************)
(* TCP relay of a session (SocketServer.Start, TlsServer.Start)            *)
(*                                                                         *)
(* After both handshakes the session goroutine starts a second goroutine   *)
(* that runs io.Copy(rConn, wConn) and itself runs io.Copy(wConn, rConn).  *)
(* SocketServer closes wConn and rConn in a defer of the session           *)
(* goroutine; TlsServer has only defer conn.Close().                       *)
(***************************************************************************)
MaxSend == 2
RelayKinds == {"socket", "tls"}
Peer(pending, sent, closed) == [pending |-> pending, sent |-> sent, closed |-> closed]

\* the client peer sends a chunk / closes its side (FIN or reset)
ClientSends ==
    /\ ~relCli.closed
    /\ relCli.sent < MaxSend
    /\ relCli' = Peer(relCli.pending + 1, relCli.sent + 1, FALSE)
    /\ UNCHANGED <<relKind, relUp, relDown, relMain, relClosed, relEgr>>
    /\ UNCHANGED exceptRelay
ClientCloses ==
    /\ ~relCli.closed
    /\ relCli' = [relCli EXCEPT !.closed = TRUE]
    /\ UNCHANGED <<relKind, relUp, relDown, relMain, relClosed, relEgr>>
    /\ UNCHANGED exceptRelay
\* the egress peer sends a chunk / closes its side
EgressSends ==
    /\ ~relEgr.closed
    /\ relEgr.sent < MaxSend
    /\ relEgr' = Peer(relEgr.pending + 1, relEgr.sent + 1, FALSE)
    /\ UNCHANGED <<relKind, relUp, relDown, relMain, relClosed, relCli>>
    /\ UNCHANGED exceptRelay
EgressCloses ==
    /\ ~relEgr.closed
    /\ relEgr' = [relEgr EXCEPT !.closed = TRUE]
    /\ UNCHANGED <<relKind, relUp, relDown, relMain, relClosed, relCli>>
    /\ UNCHANGED exceptRelay

\* one src.Read of io.Copy: an error once the transport is closed locally, a chunk if one
\* is pending, EOF or an error once the peer has closed; otherwise the call blocks
CanRead(closedHere, peer) == closedHere \/ peer.pending > 0 \/ peer.closed
ReadEnds(closedHere, peer) == closedHere \/ peer.pending = 0

\* io.Copy(rConn, wConn) in the second goroutine: Read from the client
UpRead ==
    /\ relUp = "read"
    /\ CanRead(relClosed.client, relCli)
    /\ IF ReadEnds(relClosed.client, relCli)
       THEN relUp' = "ended" /\ relCli' = relCli
       ELSE relUp' = "write" /\ relCli' = [relCli EXCEPT !.pending = @ - 1]
    /\ UNCHANGED <<relKind, relDown, relMain, relClosed, relEgr>>
    /\ UNCHANGED exceptRelay
\* io.Copy(rConn, wConn): Write to the egress; the goroutine ends with io.Copy
UpWrite(ok) ==
    /\ relUp = "write"
    /\ relUp' = IF relClosed.egress \/ ~ok THEN "ended" ELSE "read"
    /\ UNCHANGED <<relKind, relDown, relMain, relClosed, relCli, relEgr>>
    /\ UNCHANGED exceptRelay
\* io.Copy(wConn, rConn) in the session goroutine: Read from the egress
DownRead ==
    /\ relDown = "read"
    /\ CanRead(relClosed.egress, relEgr)
    /\ IF ReadEnds(relClosed.egress, relEgr)
       THEN relDown' = "ended" /\ relEgr' = relEgr
       ELSE relDown' = "write" /\ relEgr' = [relEgr EXCEPT !.pending = @ - 1]
    /\ UNCHANGED <<relKind, relUp, relMain, relClosed, relCli>>
    /\ UNCHANGED exceptRelay
\* io.Copy(wConn, rConn): Write to the client
DownWrite(ok) ==
    /\ relDown = "write"
    /\ relDown' = IF relClosed.client \/ ~ok THEN "ended" ELSE "read"
    /\ UNCHANGED <<relKind, relUp, relMain, relClosed, relCli, relEgr>>
    /\ UNCHANGED exceptRelay
\* the session goroutine returns after its io.Copy: the deferred closes run
SessionReturn ==
    /\ relMain = "copying"
    /\ relDown = "ended"
    /\ relMain' = "returned"
    /\ relClosed' = [client |-> TRUE, egress |-> relClosed.egress \/ relKind = "socket"]
    /\ UNCHANGED <<relKind, relUp, relDown, relCli, relEgr>>
    /\ UNCHANGED exceptRelay

RelayInit ==
    /\ relKind \in RelayKinds
    /\ relUp = "read"
    /\ relDown = "read"
    /\ relMain = "copying"
    /\ relClosed = [client |-> FALSE, egress |-> FALSE]
    /\ relCli = Peer(0, 0, FALSE)
    /\ relEgr = Peer(0, 0, FALSE)
RelayIdle ==
    /\ relKind = "socket"
    /\ relUp = "ended"
    /\ relDown = "ended"
    /\ relMain = "returned"
    /\ relClosed = [client |-> TRUE, egress |-> TRUE]
    /\ relCli = Peer(0, 0, TRUE)
    /\ relEgr = Peer(0, 0, TRUE)

RelayNext ==
    \/ ClientSends
    \/ ClientCloses
    \/ EgressSends
    \/ EgressCloses
    \/ UpRead
    \/ \E ok \in BOOLEAN : UpWrite(ok)
    \/ DownRead
    \/ \E ok \in BOOLEAN : DownWrite(ok)
    \/ SessionReturn

(***************************************************************************)
(* TCP relay: properties                                                   *)
(***************************************************************************)
CopyEnded == relUp = "ended" \/ relDown = "ended"
SessionClosed == relMain = "returned" /\ relClosed.client /\ relClosed.egress

\* C21 (as claimed): once either copy direction has ended, the session eventually
\* terminates with the client transport and the egress transport both closed, whatever
\* the peers do afterwards (under fair scheduling of the session's goroutines).
C21_RelayTerminates == CopyEnded ~> SessionClosed

(***************************************************************************)
(* UDP_ASSOCIATE relay of a session (SocketServer.Start, target.Proto = 3) *)
(*                                                                         *)
(* Handshake binds a UDP socket and stores the socket's own address in     *)
(* target.UdpAddr. The session goroutine copies datagrams from the socket  *)
(* to rConn (ReadFrom drops the source address); a second goroutine copies *)
(* chunks read from rConn to the socket with WriteTo(.., target.UdpAddr).  *)
(***************************************************************************)
MaxDatagrams == 2
MaxChunks == 2
UdpAddr(ip, port) == [ip |-> ip, port |-> port]
\* the address of the bound socket: the local IP of the control connection and the port
\* the kernel chose
BoundAddr == UdpAddr(IpLoop, "bound")
UdpPeers == {UdpAddr(IpLoop, "p1"), UdpAddr(IpLan, "p2")}
NoPeer == UdpAddr(NoIP, "none")
Payloads == {1, 2}
Datagram(src, data) == [src |-> src, data |-> data]

\* a UDP client sends a datagram to the bound socket
UdpPeerSends(p, d) ==
    /\ uCount.in < MaxDatagrams
    /\ uCount' = [uCount EXCEPT !.in = @ + 1]
    /\ uQueue' = Append(uQueue, Datagram(p, d))
    /\ UNCHANGED <<uTarget, uLast, uStream, uEgress, uSent, uPc>>
    /\ UNCHANGED exceptUdp
\* the egress peer sends a chunk on rConn
UdpEgressSends(d) ==
    /\ uCount.out < MaxChunks
    /\ uCount' = [uCount EXCEPT !.out = @ + 1]
    /\ uEgress' = Append(uEgress, d)
    /\ UNCHANGED <<uTarget, uLast, uQueue, uStream, uSent, uPc>>
    /\ UNCHANGED exceptUdp

\* session goroutine: n, _, err = target.UdpConn.ReadFrom(buf); rConn.Write(buf[:n]);
\* a write error ends the loop
RelayFromUdp(wok) ==
    /\ uPc.main = "loop"
    /\ uQueue # <<>>
    /\ uQueue' = Tail(uQueue)
    /\ uLast' = Head(uQueue).src
    /\ uStream' = IF wok THEN Append(uStream, Head(uQueue).data) ELSE uStream
    /\ uPc' = IF wok THEN uPc ELSE [uPc EXCEPT !.main = "waitDone"]
    /\ UNCHANGED <<uTarget, uEgress, uSent, uCount>>
    /\ UNCHANGED exceptUdp
\* second goroutine: n, err := rConn.Read(buf); target.UdpConn.WriteTo(buf[:n],
\* target.UdpAddr); an error is sent on done and ends the goroutine. A datagram sent to
\* the socket's own address is delivered to the socket.
RelayToUdp(wok) ==
    /\ uPc.back = "loop"
    /\ uEgress # <<>>
    /\ uEgress' = Tail(uEgress)
    /\ IF wok
       THEN /\ uSent' = Append(uSent, [to |-> uTarget, last |-> uLast, data |-> Head(uEgress)])
            /\ uQueue' = IF uTarget = BoundAddr THEN Append(uQueue, Datagram(BoundAddr, Head(uEgress))) ELSE uQueue
            /\ uPc' = uPc
       ELSE /\ uSent' = uSent
            /\ uQueue' = uQueue
            /\ uPc' = [uPc EXCEPT !.back = "done"]
    /\ UNCHANGED <<uTarget, uLast, uStream, uCount>>
    /\ UNCHANGED exceptUdp
\* session goroutine: err1 := <-done; return
UdpSessionReturn ==
    /\ uPc.main = "waitDone"
    /\ uPc.back = "done"
    /\ uPc' = [uPc EXCEPT !.main = "returned"]
    /\ UNCHANGED <<uTarget, uLast, uQueue, uStream, uEgress, uSent, uCount>>
    /\ UNCHANGED exceptUdp

\* Handshake, case CmdUDPAssociate: addr.UdpAddr = udpAddr, the address just bound
UdpInit ==
    /\ uTarget = BoundAddr
    /\ uLast = NoPeer
    /\ uQueue = <<>>
    /\ uStream = <<>>
    /\ uEgress = <<>>
    /\ uSent = <<>>
    /\ uCount = [in |-> 0, out |-> 0]
    /\ uPc = [main |-> "loop", back |-> "loop"]
UdpIdle == UdpInit
UdpNext ==
    \/ \E p \in UdpPeers, d \in Payloads : UdpPeerSends(p, d)
    \/ \E d \in Payloads : UdpEgressSends(d)
    \/ \E wok \in BOOLEAN : RelayFromUdp(wok)
    \/ \E wok \in BOOLEAN : RelayToUdp(wok)
    \/ UdpSessionReturn

(***************************************************************************)
(* UDP_ASSOCIATE relay: properties                                         *)
(***************************************************************************)
\* C22 (as claimed): every chunk read from the egress stream is sent as one datagram to
\* the source address of the datagram most recently received on the bound socket.
C22_ReplyToLastPeer ==
    \A i \in 1..Len(uSent) : uSent[i].last # NoPeer => uSent[i].to = uSent[i].last

(***************************************************************************)
(* country-IP index: loading the file and IsCnIp                           *)
(***************************************************************************)
MaxLines == 2
\* lines of the file: an address and a prefix length, aligned to the prefix or not
CidrLines == { [ip |-> <<114, 114, 0, 0>>, bits |-> 16], [ip |-> <<114, 114, 5, 5>>, bits |-> 16],
               [ip |-> <<1, 0, 1, 0>>, bits |-> 24], [ip |-> <<8, 8, 8, 8>>, bits |-> 32],
               [ip |-> <<112, 0, 0, 0>>, bits |-> 5], [ip |-> <<10, 200, 0, 0>>, bits |-> 9] }
QueryIPs == { <<114, 114, 114, 114>>, <<114, 115, 0, 0>>, <<1, 0, 1, 255>>, <<1, 0, 2, 0>>, IpAbroad,
              <<112, 0, 0, 1>>, <<113, 0, 0, 1>>, <<119, 255, 255, 255>>, <<120, 0, 0, 0>>, <<10, 128, 0, 1>> }
NoAnswer == [asked |-> FALSE, ip |-> NoIP, result |-> FALSE]

\* the loader handles the next line of the file
LoadLine(line) ==
    /\ ~cnLoaded
    /\ Len(cnFile) < MaxLines
    /\ cnFile' = Append(cnFile, line)
    /\ UNCHANGED <<cnLoaded, cnAnswer>>
    /\ UNCHANGED exceptCnIp
\* the loader reaches the end of the file
LoadDone ==
    /\ ~cnLoaded
    /\ cnLoaded' = TRUE
    /\ UNCHANGED <<cnFile, cnAnswer>>
    /\ UNCHANGED exceptCnIp
\* a call of IsCnIp
AskCnIp(ip) ==
    /\ cnLoaded
    /\ cnAnswer' = [asked |-> TRUE, ip |-> ip, result |-> IsCnIpIn(cnFile, IPString(ip))]
    /\ UNCHANGED <<cnFile, cnLoaded>>
    /\ UNCHANGED exceptCnIp

CnIpInit ==
    /\ cnFile = <<>>
    /\ cnLoaded = FALSE
    /\ cnAnswer = NoAnswer
CnIpIdle == CnIpInit
CnIpNext ==
    \/ \E line \in CidrLines : LoadLine(line)
    \/ LoadDone
    \/ \E ip \in QueryIPs : AskCnIp(ip)

(***************************************************************************)
(* country-IP index: properties                                            *)
(***************************************************************************)
\* the CIDR of a line covers ip: both agree on the first bits bits
Covers(line, ip) ==
    \A k \in 1..line.bits :
        LET o == (k - 1) \div 8 + 1
            w == 2 ^ (7 - ((k - 1) % 8))
        IN  (line.ip[o] \div w) % 2 = (ip[o] \div w) % 2

\* C23 (as claimed): IsCnIp(ip) is true if and only if at least one CIDR of the loaded
\* file covers ip.
C23_IndexExact ==
    cnAnswer.asked => (cnAnswer.result <=> \E i \in 1..Len(cnFile) : Covers(cnFile[i], cnAnswer.ip))

(***************************************************************************)
(* rule tokens: parseRule and Rule.Match                                   *)
(***************************************************************************)
\* net.ParseCIDR for an IPv4 token: address, "/", decimal prefix length of at most 32
ParseCIDR(s) ==
    LET i    == Index(s, "/")
        addr == ParseIP(SubSeq(s, 1, i - 1))
        mask == SubSeq(s, i + 1, Len(s))
    IN  IF i # 0 /\ addr # NoIP /\ Atoi(mask) \in 0..32
        THEN [ok |-> TRUE, ip |-> addr, bits |-> Atoi(mask)]
        ELSE [ok |-> FALSE, ip |-> NoIP, bits |-> 0]

NilRule == [kind |-> "nil", net |-> NoIP, bits |-> 0, start |-> NoIP, end |-> NoIP, text |-> <<>>]

\* parseRule
parseRule(str) ==
    LET ruleStr == TrimSpace(str)
        parts   == Split(ruleStr, "-")
        startIP == ParseIP(TrimSpace(parts[1]))
        endIP   == ParseIP(TrimSpace(parts[2]))
    IN  IF ruleStr = <<>> THEN NilRule
        ELSE IF Index(ruleStr, "/") # 0 /\ ParseCIDR(ruleStr).ok
             THEN CidrRule(ParseCIDR(ruleStr).ip, ParseCIDR(ruleStr).bits)
        ELSE IF Index(ruleStr, "-") # 0 /\ Index(ruleStr, "*") = 0 /\ Len(parts) = 2
                /\ startIP # NoIP /\ endIP # NoIP
             THEN IpRangeRule(startIP, endIP)
        ELSE IF Index(ruleStr, "*") # 0 THEN DomainWildcardRule(ruleStr)
        ELSE ExactRule(ruleStr)

RuleTokens == { <<"1", "0", ".", "0", ".", "0", ".", "0", "/", "8">>,
                <<"1", "0", ".", "5", ".", "5", ".", "5", "/", "8">>,
                <<"8", ".", "8", ".", "8", ".", "8", "/", "3", "2">>,
                <<"x", "/", "y">>,
                <<"1", ".", "1", ".", "1", ".", "1", "/", "3", "3">>,
                <<"8", ".", "8", ".", "8", ".", "0", "-", "8", ".", "8", ".", "8", ".", "2", "5", "5">>,
                <<"8", ".", "8", ".", "8", ".", "9", "-", "8", ".", "8", ".", "8", ".", "1">>,
                <<"a", "-", "b">>,
                <<"*", "-", "b">>,
                <<"*", ".", "x", ".", "i", "o">>,
                <<"b", ".", "*">>,
                <<"o", "r", "g">>,
                <<"8", "0">>,
                <<"8", ".", "8", ".", "8", ".", "0", "/", "2", "4", "-", "*">> }
RuleTargets == { <<"x", ".", "i", "o", ":", "8", "0">>,
                 <<"w", ".", "x", ".", "i", "o", ":", "4", "4", "3">>,
                 <<"b", ".", "o", "r", "g", ":", "8", "0">>,
                 <<"a", "-", "b", ".", "c", "n", ":", "8", "0">>,
                 <<"1", "0", ".", "5", ".", "5", ".", "5", ":", "8", "0">>,
                 <<"8", ".", "8", ".", "8", ".", "8", ":", "4", "4", "3">>,
                 <<"8", ".", "8", ".", "9", ".", "0", ":", "8", "0">>,
                 <<"x", "/", "y", ".", "o", "r", "g", ":", "8", "0">> }
RuleIPs == {NoIP, IpTen, IpAbroad, <<8, 8, 9, 0>>, <<11, 0, 0, 0>>, <<8, 8, 8, 0>>, <<8, 8, 8, 255>>}
NoMatchCall == [done |-> FALSE, target |-> <<>>, ip |-> NoIP, result |-> FALSE]

\* LoadRules: parseRule(item)
ParseRuleItem(s) ==
    /\ rlToken = <<>>
    /\ rlToken' = s
    /\ rlRule' = parseRule(s)
    /\ UNCHANGED rlCall
    /\ UNCHANGED exceptRule
\* IsWhite / IsBlack: rule.Match(target, ip)
CallMatch(target, ip) ==
    /\ rlToken # <<>>
    /\ rlRule # NilRule
    /\ rlCall' = [done |-> TRUE, target |-> target, ip |-> ip, result |-> Match(rlRule, target, ip)]
    /\ UNCHANGED <<rlToken, rlRule>>
    /\ UNCHANGED exceptRule

RuleInit ==
    /\ rlToken = <<>>
    /\ rlRule = NilRule
    /\ rlCall = NoMatchCall
RuleIdle == RuleInit
RuleNext ==
    \/ \E s \in RuleTokens : ParseRuleItem(s)
    \/ \E target \in RuleTargets, ip \in RuleIPs : CallMatch(target, ip)

(***************************************************************************)
(* rule tokens: properties                                                 *)
(***************************************************************************)
\* the stated classification of a token
StatedKind(s) ==
    LET cut == Index(s, "-") IN
    IF Index(s, "/") # 0 /\ ParseCIDR(s).ok THEN "cidr"
    ELSE IF cut # 0 /\ Index(s, "*") = 0 /\ ParseIP(SubSeq(s, 1, cut - 1)) # NoIP
            /\ ParseIP(SubSeq(s, cut + 1, Len(s))) # NoIP THEN "range"
    ELSE IF Index(s, "*") # 0 THEN "wild"
    ELSE "exact"
\* a <= b in IPv4 numeric order
IpLe(a, b) == a = b \/ \E i \in 1..4 : a[i] < b[i] /\ \A j \in 1..(i - 1) : a[j] = b[j]
\* the target without its port
StripPort(target) == IF LastIndex(target, ":") = 0 THEN target ELSE SubSeq(target, 1, LastIndex(target, ":") - 1)
\* the stated outcome of Match for a token, where the statement gives one
StatedMatch(s, target, ip) ==
    LET kind == StatedKind(s)
        cut  == Index(s, "-")
        host == StripPort(target)
    IN  CASE kind = "cidr"  -> ip # NoIP /\ Covers([ip |-> ParseCIDR(s).ip, bits |-> ParseCIDR(s).bits], ip)
          [] kind = "range" -> ip # NoIP /\ IpLe(ParseIP(SubSeq(s, 1, cut - 1)), ip)
                                         /\ IpLe(ip, ParseIP(SubSeq(s, cut + 1, Len(s))))
          [] kind = "wild" /\ HasPrefix(s, <<"*", ".">>) ->
                 host = SubSeq(s, 3, Len(s)) \/ HasSuffix(host, SubSeq(s, 2, Len(s)))
          [] kind = "wild" /\ ~HasPrefix(s, <<"*", ".">>) /\ HasSuffix(s, <<".", "*">>) ->
                 HasPrefix(host, SubSeq(s, 1, Len(s) - 1))
          [] kind = "exact" -> Contains(target, s)
          [] OTHER -> rlCall.result

MinTTL == 60
MaxTTL == 3600
MaxAdvances == 4
MaxSets == 2
CacheKeys == {"a.cn", "b.org"}
CacheValues == {IpCn, IpAbroad}
TTLs == {30, 61, 3601}
Steps == {1, 59, 3540}
NoEntry == [present |-> FALSE, response |-> NoIP, expiresAt |-> 0]
NoSet == [done |-> FALSE, response |-> NoIP, ttl |-> 0, at |-> 0]
NoGet == [done |-> FALSE, key |-> "", hit |-> FALSE, response |-> NoIP]

\* an entry that expires one second early
After_OrEqual(now, expiresAt) == now >= expiresAt
\* time.Now().After(entry.expiresAt)
After(now, expiresAt) == now > expiresAt

\* the clock moves on
Advance(d) ==
    /\ cCount.advances < MaxAdvances
    /\ cNow' = cNow + d
    /\ cCount' = [cCount EXCEPT !.advances = @ + 1]
    /\ cLastGet' = NoGet
    /\ UNCHANGED <<cEntries, cLastSet, cSweptLive>>
    /\ UNCHANGED exceptCache
\* DNSCache.Set
CacheSet(k0, resp, ttl) ==
    /\ cCount.sets < MaxSets
    /\ LET ttl1 == IF ttl < MinTTL THEN MinTTL ELSE ttl
           ttl2 == IF ttl1 > MaxTTL THEN MaxTTL ELSE ttl1
       IN  cEntries' = [cEntries EXCEPT ![k0] = [present |-> TRUE, response |-> resp, expiresAt |-> cNow + ttl2]]
    /\ cLastSet' = [cLastSet EXCEPT ![k0] = [done |-> TRUE, response |-> resp, ttl |-> ttl, at |-> cNow]]
    /\ cCount' = [cCount EXCEPT !.sets = @ + 1]
    /\ cLastGet' = NoGet
    /\ UNCHANGED <<cNow, cSweptLive>>
    /\ UNCHANGED exceptCache
\* DNSCache.Get
CacheGet(k0) ==
    /\ LET entry == cEntries[k0]
           hit   == entry.present /\ ~After(cNow, entry.expiresAt)
       IN  cLastGet' = [done |-> TRUE, key |-> k0, hit |-> hit,
                        response |-> IF hit THEN entry.response ELSE NoIP]
    /\ UNCHANGED <<cNow, cEntries, cLastSet, cCount, cSweptLive>>
    /\ UNCHANGED exceptCache
\* DNSCache.cleanup, called by cleanupLoop on each tick of its ticker
cleanup ==
    /\ cEntries' = [k \in CacheKeys |->
                       IF cEntries[k].present /\ After(cNow, cEntries[k].expiresAt) THEN NoEntry ELSE cEntries[k]]
    /\ cSweptLive' = (cSweptLive \/ \E k \in CacheKeys :
                          cEntries[k].present /\ ~cEntries'[k].present /\ cNow <= cEntries[k].expiresAt)
    /\ cLastGet' = NoGet
    /\ UNCHANGED <<cNow, cLastSet, cCount>>
    /\ UNCHANGED exceptCache

\* GetCache: an empty map
CacheInit ==
    /\ cNow = 0
    /\ cEntries = [k \in CacheKeys |-> NoEntry]
    /\ cLastGet = NoGet
    /\ cLastSet = [k \in CacheKeys |-> NoSet]
    /\ cCount = [advances |-> 0, sets |-> 0]
    /\ cSweptLive = FALSE
CacheIdle == CacheInit
CacheNext ==
    \/ \E d \in Steps : Advance(d)
    \/ \E k0 \in CacheKeys, resp \in CacheValues, ttl \in TTLs : CacheSet(k0, resp, ttl)
    \/ \E k0 \in CacheKeys : CacheGet(k0)
    \/ cleanup

(***************************************************************************)
(* DoH cache: properties                                                   *)
(***************************************************************************)
\* clamp(ttl, 60 s, 3600 s)
EffectiveTTL(ttl) == IF ttl <= 60 THEN 60 ELSE IF ttl >= 3600 THEN 3600 ELSE ttl

\* C25: a Get after the last Set(k, v, ttl) returns v up to and including the effective
\* TTL after the Set and a miss later, whether or not the sweep ran; the sweep removes
\* only expired entries.
C25_CacheTTL ==
    /\ cLastGet.done /\ cLastSet[cLastGet.key].done =>
           LET set == cLastSet[cLastGet.key] IN
           IF cNow <= set.at + EffectiveTTL(set.ttl)
           THEN cLastGet.hit /\ cLastGet.response = set.response
           ELSE ~cLastGet.hit
    /\ ~cSweptLive
C25_Witness ==
    /\ cLastGet.done /\ cLastGet.hit
    /\ cLastSet[cLastGet.key].ttl = 30
    /\ cNow = cLastSet[cLastGet.key].at + 60
    /\ \E k \in CacheKeys : cLastSet[k].done /\ ~cEntries[k].present

(***************************************************************************)
(* configuration reload (config.ReloadConfig) and the rule engine's lists  *)
(***************************************************************************)
MaxReloads == 2
\* the fields of config.Config the model follows; the others are assigned the same way
ConfigOf(debug, out, white, black) == [Debug |-> debug, OutType |-> out, WhiteList |-> white, BlackList |-> black]
TokenLists == { <<>>, <<<<"1", "0", ".", "0", ".", "0", ".", "0", "/", "8">>>>, <<<<"*", ".", "x", ".", "i", "o">>, <<"b", ".", "o", "r", "g">>>> }
Configs == {ConfigOf(d, o, w, b) : d \in BOOLEAN, o \in {RemoteTypeTLS, RemoteTypeDirect}, w \in TokenLists, b \in TokenLists}
\* the configuration file: whether it opens, whether it reads, whether it is well-formed
\* JSON of the right types, and the fields json.Unmarshal decodes from it
Files == {[open |-> o, read |-> r, valid |-> v, cfg |-> c] :
              o \in BOOLEAN, r \in BOOLEAN, v \in BOOLEAN,
              c \in {ConfigOf(d, RemoteTypeTLS, w, <<<<"1", "0", ".", "0", ".", "0", ".", "0", "/", "8">>>>) : d \in BOOLEAN, w \in TokenLists}}

\* ReloadConfig: the error it returns
ReloadError(file) ==
    IF ~file.open THEN "open"
    ELSE IF ~file.read THEN "read"
    ELSE IF ~file.valid THEN "unmarshal"
    ELSE "none"
\* a reload that assigns what was decoded before looking at the error
ConfigAfterReload_Eager(cfg, file) == IF file.open /\ file.read THEN file.cfg ELSE cfg
\* ReloadConfig: config.Config when it returns
ConfigAfterReload(cfg, file) == IF ReloadError(file) = "none" THEN file.cfg ELSE cfg

\* LoadRules: one list
RECURSIVE LoadList(_)
LoadList(items) ==
    IF items = <<>> THEN <<>>
    ELSE IF parseRule(Head(items)) = NilRule THEN LoadList(Tail(items))
    ELSE <<parseRule(Head(items))>> \o LoadList(Tail(items))
\* RuleEngine.LoadRules
LoadRules(cfg) == [loaded |-> TRUE, whiteRules |-> LoadList(cfg.WhiteList), blackRules |-> LoadList(cfg.BlackList)]
NoEngine == [loaded |-> FALSE, whiteRules |-> <<>>, blackRules |-> <<>>]
NoReload == [done |-> FALSE, err |-> "none", cfgBefore |-> ConfigOf(FALSE, 0, <<>>, <<>>), engineBefore |-> NoEngine,
             runsBefore |-> 0]

\* the configuration file is rewritten
FileChange(file) ==
    /\ rcFile' = file
    /\ rcLast' = NoReload
    /\ UNCHANGED <<rcConfig, rcEngine, rcRuns>>
    /\ UNCHANGED exceptReload
\* GetRuleEngine by a routing call: the first call loads the rules
GetRuleEngine ==
    /\ ~rcEngine.loaded
    /\ rcEngine' = LoadRules(rcConfig)
    /\ rcLast' = NoReload
    /\ UNCHANGED <<rcConfig, rcFile, rcRuns>>
    /\ UNCHANGED exceptReload
\* ReloadConfig with the callback registered by the route package
\* (GetRuleEngine().ReloadRules())
ReloadConfig ==
    /\ rcRuns < MaxReloads
    /\ rcConfig' = ConfigAfterReload(rcConfig, rcFile)
    /\ IF ReloadError(rcFile) = "none"
       THEN /\ rcEngine' = LoadRules(rcConfig')
            /\ rcRuns' = rcRuns + 1
       ELSE UNCHANGED <<rcEngine, rcRuns>>
    /\ rcLast' = [done |-> TRUE, err |-> ReloadError(rcFile), cfgBefore |-> rcConfig, engineBefore |-> rcEngine,
                  runsBefore |-> rcRuns]
    /\ UNCHANGED rcFile
    /\ UNCHANGED exceptReload

ReloadInit ==
    /\ rcConfig \in {ConfigOf(FALSE, RemoteTypeTLS, <<>>, <<>>), ConfigOf(TRUE, RemoteTypeDirect, <<<<"*", ".", "x", ".", "i", "o">>, <<"b", ".", "o", "r", "g">>>>, <<<<"1", "0", ".", "0", ".", "0", ".", "0", "/", "8">>>>)}
    /\ rcFile \in {f \in Files : f.open /\ f.read /\ f.valid /\ f.cfg.WhiteList = <<>> /\ ~f.cfg.Debug}
    /\ rcEngine = NoEngine
    /\ rcRuns = 0
    /\ rcLast = NoReload
ReloadIdle ==
    /\ rcConfig = ConfigOf(FALSE, RemoteTypeTLS, <<>>, <<>>)
    /\ rcFile = [open |-> FALSE, read |-> FALSE, valid |-> FALSE, cfg |-> ConfigOf(FALSE, RemoteTypeTLS, <<>>, <<<<"1", "0", ".", "0", ".", "0", ".", "0", "/", "8">>>>)]
    /\ rcEngine = NoEngine
    /\ rcRuns = 0
    /\ rcLast = NoReload
ReloadNext ==
    \/ \E file \in Files : FileChange(file)
    \/ GetRuleEngine
    \/ ReloadConfig

(***************************************************************************)
(* configuration reload: properties                                        *)
(***************************************************************************)
\* C26: when ReloadConfig fails, every field of the active configuration and both rule
\* lists of the rule engine are as before the call, and no reload callback has run.
C26_FailedReloadFrame ==
    (rcLast.done /\ rcLast.err # "none")
        => /\ rcConfig = rcLast.cfgBefore
           /\ rcEngine = rcLast.engineBefore
           /\ rcRuns = rcLast.runsBefore
C26_Witness ==
    /\ rcLast.done
    /\ rcLast.err = "unmarshal"
    /\ rcFile.cfg # rcConfig
    /\ rcEngine.loaded
    /\ rcEngine.whiteRules # <<>>
    /\ rcRuns > 0

(***************************************************************************)
(* the targets the ingress handshakes return                               *)
(***************************************************************************)
\* further first reads: CONNECT with a port above 65535, with a negative port and with an
\* empty host, and a forward request whose URL carries a port above 65535
HelloConnectBig   == StringToBytes(<<"C", "O", "N", "N", "E", "C", "T", " ", "b", ".", "o", "r", "g", ":", "9", "9", "9", "9", "9", " ", "H", "T", "T", "P", "/", "1", ".", "1">>) \o <<13, 10>>
HelloConnectNeg   == StringToBytes(<<"C", "O", "N", "N", "E", "C", "T", " ", "b", ".", "o", "r", "g", ":", "-", "1", " ", "H", "T", "T", "P", "/", "1", ".", "1">>) \o <<13, 10>>
HelloConnectEmpty == StringToBytes(<<"C", "O", "N", "N", "E", "C", "T", " ", ":", "4", "4", "3", " ", "H", "T", "T", "P", "/", "1", ".", "1">>) \o <<13, 10>>
HelloForwardBig   == StringToBytes(<<"G", "E", "T", " ", "h", "t", "t", "p", ":", "/", "/", "b", ".", "o", "r", "g", ":", "7", "0", "0", "0", "0", "/", " ", "H", "T", "T", "P", "/", "1", ".", "1">>) \o <<13, 10, 13, 10>>
\* a SOCKS5 CONNECT whose domain has length 0, port 80: seven bytes
CmdEmptyDomain == <<5, CmdConnect, 0, ATypDomain, 0, 0, 80>>
SocketInputs ==
    Inputs
    \cup {Input(h, <<>>, f) : h \in {HelloConnectBig, HelloConnectNeg, HelloConnectEmpty, HelloForwardBig},
                              f \in {"none", "hello", "hdr", "w1"}}
    \cup {Input(HelloSocks, CmdEmptyDomain, f) : f \in Faults \ {"hdr"}}
\* the address field of a TLS/WSS prelude, as the server reads it
PreludeAddrs == { <<"b", ".", "o", "r", "g", ":", "8", "0">>, <<"8", ".", "8", ".", "8", ".", "8", ":", "4", "4", "3">>, <<"b", ".", "o", "r", "g">>, <<"b", ".", "o", "r", "g", ":", "9", "9", "9", "9", "9">>, <<"b", ".", "o", "r", "g", ":", "-", "1">>, <<":", "8", "0">>, <<>>, <<"b", ".", "o", "r", "g", ":">>, <<"b", ".", "o", "r", "g", ":", "x">> }
NoOutcome == [done |-> FALSE, err |-> "unset", target |-> NoTarget, panicked |-> FALSE, written |-> <<>>]
\* the listener's local address and the port net.ListenUDP binds
ListenIP == IpLoop
BoundUdpPort == 40000
\* the bytes of each conn.Write of Handshake: the hello response, the UDP_ASSOCIATE reply,
\* the command response, and the first line of the HTTP 200 response
Written(w) ==
    IF w = "hello" THEN <<Version5, 0>>
    ELSE IF w = "udp" THEN <<Version5, 0, 0, ATypIP4>> \o ListenIP \o PutUint16(BoundUdpPort)
    ELSE IF w = "connect" THEN <<Version5, 0, 0, 1, 0, 0, 0, 0, 0, 0>>
    ELSE StringToBytes(<<"H", "T", "T", "P", "/", "1", ".", "1", " ", "2", "0", "0">>)

\* SocketServer.Handshake returns to Start
SocketHandshakeReturns(in) ==
    /\ hsKind' = "socket"
    /\ hsIn' = in
    /\ hsOut' = [done |-> TRUE, err |-> Handshake(in).err, target |-> Handshake(in).target,
                 panicked |-> Handshake(in).panicked,
                 written |-> [i \in 1..Len(Handshake(in).writes) |-> Written(Handshake(in).writes[i])]]
    /\ UNCHANGED exceptHs

\* TlsServer.Handshake (and the WSS handler, which parses the same way) returns to Start,
\* the timestamp and the length having been read; pad: the bytes of addrBuf the read left
\* zero
TlsHandshakeReturns(addr, pad) ==
    /\ hsKind' = "tls"
    /\ hsIn' = [addr |-> addr, pad |-> pad]
    /\ hsOut' = [done |-> TRUE, err |-> ParseAddr(addr, pad).err, target |-> ParseAddr(addr, pad).target,
                 panicked |-> FALSE, written |-> <<>>]
    /\ UNCHANGED exceptHs

HsInit == hsKind = "none" /\ hsIn = <<>> /\ hsOut = NoOutcome
HsIdle == HsInit
HsNext ==
    \/ \E in \in SocketInputs : SocketHandshakeReturns(in)
    \/ \E addr \in PreludeAddrs, pad \in {0, 1} : TlsHandshakeReturns(addr, pad)

(***************************************************************************)
(* the targets the ingress handshakes return: properties                   *)
(***************************************************************************)
Accepted == hsOut.done /\ hsOut.err = "none" /\ ~hsOut.panicked
ExactlyOneOfNameIp(t) == (t.Name # <<>>) # (t.IP # NoIP)
PortInRange(t) == t.Port \in 0..65535
\* C27: every target an ingress handshake returns without an error has exactly one of
\* Name and IP populated and a port in [0, 65535].
C27_TargetWellFormed ==
    Accepted => ExactlyOneOfNameIp(hsOut.target) /\ PortInRange(hsOut.target)
\* the two halves, and the SOCKS5 addresses with a non-empty domain, taken alone
C27_OneOfNameIp == Accepted => ExactlyOneOfNameIp(hsOut.target)
C27_PortInRange == Accepted => PortInRange(hsOut.target)
C27_Socks5 == (Accepted /\ hsKind = "socket" /\ hsIn.hello = HelloSocks) => PortInRange(hsOut.target)

\* the command replies among the writes of a SOCKS5 handshake: 05 00 00 ATYP ...
IsCommandReply(bytes) == Len(bytes) >= 4 /\ SubSeq(bytes, 1, 3) = <<Version5, 0, 0>>
CommandReplies == SelectSeq(hsOut.written, IsCommandReply)
Socks5Returned == hsOut.done /\ hsKind = "socket" /\ hsIn.hello = HelloSocks /\ ~hsIn.helloErr
Socks5Command == IF Len(hsIn.cmd) >= 2 /\ ~hsIn.cmdErr /\ ~hsIn.wErr THEN hsIn.cmd[2] ELSE 0
UdpAssociateReply == <<Version5, 0, 0, ATypIP4>> \o ListenIP \o PutUint16(BoundUdpPort)
ConnectReply == <<Version5, 0, 0, 1, 0, 0, 0, 0, 0, 0>>
\* C31: an accepted SOCKS5 request gets exactly one command reply, the announcement of
\* the bound UDP socket for UDP_ASSOCIATE and 05 00 00 01 00000000 0000 for CONNECT; any
\* other command gets no reply and an error.
C31_OneCommandReply ==
    Socks5Returned =>
        /\ (Accepted /\ Socks5Command = CmdUDPAssociate) => CommandReplies = <<UdpAssociateReply>>
        /\ (Accepted /\ Socks5Command = CmdConnect) => CommandReplies = <<ConnectReply>>
        /\ (Len(hsIn.cmd) >= 7 /\ ~hsIn.cmdErr /\ ~hsIn.wErr /\ Socks5Command \notin {CmdConnect, CmdUDPAssociate})
               => (hsOut.err # "none" /\ CommandReplies = <<>>)
\* the parts about CONNECT and about the other commands, taken alone
C31_ConnectAndOthers ==
    Socks5Returned =>
        /\ (Accepted /\ Socks5Command = CmdConnect) => CommandReplies = <<ConnectReply>>
        /\ (Len(hsIn.cmd) >= 7 /\ ~hsIn.cmdErr /\ ~hsIn.wErr /\ Socks5Command \notin {CmdConnect, CmdUDPAssociate})
               => (hsOut.err # "none" /\ CommandReplies = <<>>)
C31_ConnectWitness == Socks5Returned /\ Accepted /\ Socks5Command = CmdConnect

\* the number of bytes of a command message that its address and port fields take up to
\* their end, as the address type and the domain length byte declare it
DeclaredEnd(cmd) ==
    IF cmd[4] = ATypIP4 THEN 10 ELSE IF cmd[4] = ATypIP6 THEN 22 ELSE 7 + cmd[5]
Socks5AddressParsed ==
    /\ Socks5Returned /\ ~hsIn.wErr /\ ~hsIn.cmdErr /\ ~hsIn.udpErr /\ ~hsIn.w2Err
    /\ Len(hsIn.cmd) >= 5
    /\ hsIn.cmd[2] \in {CmdConnect, CmdUDPAssociate}
    /\ hsIn.cmd[4] \in {ATypIP4, ATypIP6, ATypDomain}
\* C39: the SOCKS5 handshake returns an error for every request whose address and port
\* fields are not entirely contained in the bytes the request read received; it builds no
\* target from buffer bytes beyond them.
C39_CutRequestRejected ==
    (Socks5AddressParsed /\ DeclaredEnd(hsIn.cmd) > Len(hsIn.cmd))
        => (hsOut.err # "none" /\ hsOut.target = NoTarget)
\* a request that holds its fields gives a target with the port of the request
C39_ContainedRequest ==
    (Socks5AddressParsed /\ Accepted /\ DeclaredEnd(hsIn.cmd) <= Len(hsIn.cmd))
        => hsOut.target.Port = hsIn.cmd[DeclaredEnd(hsIn.cmd) - 1] * 256 + hsIn.cmd[DeclaredEnd(hsIn.cmd)]
C39_ContainedWitness ==
    Socks5AddressParsed /\ Accepted /\ DeclaredEnd(hsIn.cmd) <= Len(hsIn.cmd) /\ hsOut.target.Port = 443

(***************************************************************************)
(* the DNS interceptor of the virtual interface (tun/dns.go)               *)
(***************************************************************************)
MaxQueries == 2
MaxNow == 60
PutUint32(v) == <<(v \div 2 ^ 24) % 256, (v \div 2 ^ 16) % 256, (v \div 256) % 256, v % 256>>

\* parseDNSName: the loop. Offsets count from 0 as in the code; data[i + 1] is the byte at
\* offset i.
maxJumps == 5
\* a test of the jump count that lets one more jump pass
TooManyJumps_OneMore(jumpsPerformed) == jumpsPerformed > maxJumps + 1
\* the test at the top of the loop
TooManyJumps(jumpsPerformed) == jumpsPerformed > maxJumps
RECURSIVE parseDNSNameLoop(_, _, _, _, _, _)
parseDNSNameLoop(data, offset, name, originalOffset, jumped, jumpsPerformed) ==
    LET fail(e) == [err |-> e, name |-> <<>>, off |-> 0]
        length  == data[offset + 1]
        off1    == offset + 1
    IN  IF TooManyJumps(jumpsPerformed) THEN fail("too many DNS jumps")
        ELSE IF offset >= Len(data) THEN fail("DNS name parsing out of bounds")
        ELSE IF length = 0
             THEN [err |-> "none", name |-> name, off |-> IF jumped THEN originalOffset ELSE off1]
        ELSE IF length \div 64 = 3
             THEN IF off1 >= Len(data) THEN fail("DNS pointer out of bounds")
                  ELSE parseDNSNameLoop(data, (length % 64) * 256 + data[off1 + 1], name,
                                        IF jumped THEN originalOffset ELSE off1 + 1, TRUE, jumpsPerformed + 1)
        ELSE IF off1 + length > Len(data) THEN fail("DNS label out of bounds")
        ELSE parseDNSNameLoop(data, off1 + length,
                              (IF Len(name) > 0 THEN name \o <<".">> ELSE name)
                                  \o BytesToString(SubSeq(data, off1 + 1, off1 + length)),
                              originalOffset, jumped, jumpsPerformed)
parseDNSName(data, offset) == parseDNSNameLoop(data, offset, <<>>, offset, FALSE, 0)

NoQuery == [err |-> "unset", ID |-> 0, Domain |-> <<>>, Type |-> 0]
parseDNSQuery(data) ==
    LET r == parseDNSName(data, 12) IN
    IF Len(data) < 12 THEN [NoQuery EXCEPT !.err = "DNS query too short"]
    ELSE IF r.err # "none" THEN [NoQuery EXCEPT !.err = r.err]
    ELSE IF Len(data) < r.off + 4 THEN [NoQuery EXCEPT !.err = "DNS query incomplete"]
    ELSE [err |-> "none", ID |-> BeUint16(SubSeq(data, 1, 2)), Domain |-> r.name,
          Type |-> BeUint16(SubSeq(data, r.off + 1, r.off + 2))]

\* splitDomain: the non-empty pieces between dots
splitDomain(domain) == SelectSeq(Split(domain, "."), LAMBDA p : p # <<>>)
RECURSIVE AppendLabels(_)
AppendLabels(parts) ==
    IF parts = <<>> THEN <<>>
    ELSE <<Len(Head(parts)) % 256>> \o StringToBytes(Head(parts)) \o AppendLabels(Tail(parts))
buildDNSQueryPart(domain, qtype) ==
    AppendLabels(splitDomain(domain)) \o <<0>> \o PutUint16(qtype) \o <<0, 1>>

\* calculateChecksum: one's-complement sum of the 16-bit words
RECURSIVE SumWords(_)
SumWords(d) == IF Len(d) = 0 THEN 0
               ELSE IF Len(d) = 1 THEN d[1] * 256
               ELSE d[1] * 256 + d[2] + SumWords(SubSeq(d, 3, Len(d)))
RECURSIVE FoldCarry(_)
FoldCarry(sum) == IF sum \div 65536 # 0 THEN FoldCarry((sum % 65536) + (sum \div 65536)) ELSE sum
calculateChecksum(d) == 65535 - FoldCarry(SumWords(d))

BuildIPPacket(srcIP, dstIP, protocol, data) ==
    LET hdr == <<69, 0>> \o PutUint16(Uint16(20 + Len(data))) \o <<0, 0, 64, 0, 64, protocol, 0, 0>>
                   \o srcIP \o dstIP
    IN  SubSeq(hdr, 1, 10) \o PutUint16(calculateChecksum(hdr)) \o SubSeq(hdr, 13, 20) \o data

\* the UDP datagram and IP packet both response builders end with
UdpReply(src, dst, udp, response) ==
    BuildIPPacket(dst, src, IPProtocolUDP,
                  PutUint16(udp.DstPort) \o PutUint16(udp.SrcPort) \o PutUint16(Uint16(Len(response) + 8))
                      \o <<0, 0>> \o response)
buildDNSResponse(src, dst, udp, query, ip) ==
    UdpReply(src, dst, udp,
             PutUint16(query.ID) \o <<129, 128>> \o PutUint16(1) \o PutUint16(1) \o PutUint16(0) \o PutUint16(0)
                 \o buildDNSQueryPart(query.Domain, query.Type)
                 \o <<192, 12>> \o PutUint16(1) \o PutUint16(1) \o PutUint32(60) \o PutUint16(4) \o ip)
buildDNSErrorResponse(src, dst, udp, query, rcode) ==
    UdpReply(src, dst, udp,
             PutUint16(query.ID) \o <<129, rcode % 16>> \o PutUint16(1) \o PutUint16(0) \o PutUint16(0) \o PutUint16(0)
                 \o buildDNSQueryPart(query.Domain, query.Type))

\* ParseIPPacket: the fields handlePacket uses. SrcIP and DstIP are copies; Data is the
\* part buf[HeaderLen:n] of the read buffer itself.
ParseIPPacket(data) ==
    IF Len(data) < 20 THEN [err |-> "IP packet too short"]
    ELSE IF data[1] \div 16 # 4 THEN [err |-> "unsupported IP version"]
    ELSE IF Len(data) < (data[1] % 16) * 4 THEN [err |-> "IP packet shorter than header length"]
    ELSE [err |-> "none", HeaderLen |-> (data[1] % 16) * 4, Protocol |-> data[10],
          SrcIP |-> SubSeq(data, 13, 16), DstIP |-> SubSeq(data, 17, 20), n |-> Len(data)]
NoUdp == [err |-> "unset", SrcPort |-> 0, DstPort |-> 0, Data |-> <<>>]
ParseUDPPacket(data) ==
    IF Len(data) < 8 THEN [NoUdp EXCEPT !.err = "UDP packet too short"]
    ELSE [err |-> "none", SrcPort |-> BeUint16(SubSeq(data, 1, 2)), DstPort |-> BeUint16(SubSeq(data, 3, 4)),
          Data |-> SubSeq(data, 9, Len(data))]

\* what a client puts on the virtual interface: an IPv4/UDP packet with a DNS message
DnsPacket(src, dst, sport, dport, message) ==
    <<69, 0>> \o PutUint16(28 + Len(message)) \o <<0, 1, 0, 0, 64, IPProtocolUDP, 0, 0>> \o src \o dst
        \o PutUint16(sport) \o PutUint16(dport) \o PutUint16(8 + Len(message)) \o <<0, 0>> \o message
DnsQuestion(id, labels, qtype) ==
    PutUint16(id) \o <<1, 0, 0, 1, 0, 0, 0, 0, 0, 0>> \o labels \o <<0>> \o PutUint16(qtype) \o <<0, 1>>
LabelsA == <<1>> \o StringToBytes(<<"a">>) \o <<2>> \o StringToBytes(<<"i", "o">>)
LabelsB == <<1>> \o StringToBytes(<<"b">>) \o <<2>> \o StringToBytes(<<"i", "o">>)
IpClientOne == <<10, 0, 0, 2>>
IpClientTwo == <<10, 0, 0, 3>>
IpResolver == <<1, 1, 1, 1>>
\* A a.io with id 0xABCD, A a.io from another client with another id and port, AAAA b.io,
\* and a datagram to port 53 that is cut inside the DNS header
DnsPackets ==
    { DnsPacket(IpClientOne, IpAbroad, 4000, 53, DnsQuestion(43981, LabelsA, 1)),
      DnsPacket(IpClientTwo, IpResolver, 4001, 53, DnsQuestion(258, LabelsA, 1)),
      DnsPacket(IpClientOne, IpAbroad, 4002, 53, DnsQuestion(7, LabelsB, 28)),
      DnsPacket(IpClientTwo, IpAbroad, 4003, 53, <<0, 9, 1, 0, 0>>) }

\* what ECSQuery returns: an error, or the Answer list of a response. Type 5 is a CNAME.
DnsDohResults ==
    { [err |-> "network", Answer |-> <<>>],
      [err |-> "none", Answer |-> <<>>],
      [err |-> "none", Answer |-> <<[Type |-> 1, Data |-> <<"1", ".", "2", ".", "3", ".", "4">>]>>],
      [err |-> "none", Answer |-> <<[Type |-> 5, Data |-> <<"c", ".", "i", "o">>], [Type |-> 1, Data |-> <<"5", ".", "6", ".", "7", ".", "8">>]>>],
      [err |-> "none", Answer |-> <<[Type |-> 1, Data |-> <<"c", ".", "i", "o">>]>>] }
\* HandleDNSQuery, the loop over rsp.Answer: ip is assigned from every A record until one
\* parses as IPv4
RECURSIVE ExtractIP(_, _)
ExtractIP(answers, ip) ==
    IF answers = <<>> THEN ip
    ELSE IF Head(answers).Type = 1
         THEN IF ParseIP(Head(answers).Data) # NoIP THEN ParseIP(Head(answers).Data)
              ELSE ExtractIP(Tail(answers), NoIP)
    ELSE ExtractIP(Tail(answers), ip)

NoCacheEntry == [IP |-> NoIP, ExpiresAt |-> -1]
DomainA == <<"a", ".", "i", "o">>
DomainB == <<"b", ".", "i", "o">>
DnsTask(pkt, ip) ==
    [pc |-> "filter", query |-> pkt, hl |-> ip.HeaderLen, n |-> ip.n, src |-> ip.SrcIP, dst |-> ip.DstIP,
     proto |-> ip.Protocol, raced |-> FALSE, udp |-> NoUdp, q |-> NoQuery, ip |-> NoIP, kind |-> "none",
     a |-> NoIP]
DnsLive == ~dqFatal

\* Start: device.Read into the one buffer, ParseIPPacket, go h.handlePacket(ipPkt)
DnsDeviceRead(pkt) ==
    /\ DnsLive
    /\ Len(dqTasks) < MaxQueries
    /\ dqBuf' = pkt \o SubSeq(dqBuf, Len(pkt) + 1, Len(dqBuf))
    /\ IF ParseIPPacket(pkt).err = "none"
       THEN dqTasks' = Append(dqTasks, DnsTask(pkt, ParseIPPacket(pkt)))
       ELSE UNCHANGED dqTasks
    /\ UNCHANGED <<dqCache, dqNow, dqLock, dqOut, dqFatal>>
    /\ UNCHANGED exceptDns

\* handlePacket up to the DNS branch, and parseDNSQuery in HandleDNSQuery: both read
\* ipPkt.Data, that is the buffer as it is when the goroutine runs
DnsTaskParse(k) ==
    LET t    == dqTasks[k]
        data == SubSeq(dqBuf, t.hl + 1, t.n)
        udp  == ParseUDPPacket(data)
        q    == parseDNSQuery(udp.Data)
    IN  /\ DnsLive
        /\ t.pc = "filter"
        /\ dqTasks' = [dqTasks EXCEPT
               ![k].raced = SubSeq(dqBuf, 1, t.n) # t.query,
               ![k].udp = IF udp.err = "none" THEN [udp EXCEPT !.Data = <<>>] ELSE NoUdp,
               ![k].q = IF udp.err = "none" /\ udp.DstPort = 53 THEN q ELSE NoQuery,
               ![k].pc = IF ~shouldHandle([dst |-> t.dst]) THEN "done"
                         ELSE IF t.proto \notin {IPProtocolTCP, IPProtocolUDP} THEN "done"
                         ELSE IF t.proto # IPProtocolUDP \/ udp.err # "none" \/ udp.DstPort # 53 THEN "flow"
                         ELSE IF q.err # "none" THEN "done"
                         ELSE "rlock"]
        /\ UNCHANGED <<dqBuf, dqCache, dqNow, dqLock, dqOut, dqFatal>>
        /\ UNCHANGED exceptDns

\* h.cache.mu.RLock()
DnsRLock(k) ==
    /\ DnsLive
    /\ dqTasks[k].pc = "rlock"
    /\ dqLock.writer = 0
    /\ dqLock' = [dqLock EXCEPT !.readers = @ \cup {k}]
    /\ dqTasks' = [dqTasks EXCEPT ![k].pc = "lookup"]
    /\ UNCHANGED <<dqBuf, dqCache, dqNow, dqOut, dqFatal>>
    /\ UNCHANGED exceptDns

\* the map lookup and the expiry test; on a hit RUnlock and buildDNSResponse, on a miss
\* RUnlock
DnsLookup(k) ==
    LET t == dqTasks[k]
        entry == dqCache[t.q.Domain]
    IN  /\ DnsLive
        /\ t.pc = "lookup"
        /\ IF entry # NoCacheEntry /\ dqNow < entry.ExpiresAt
           THEN /\ dqTasks' = [dqTasks EXCEPT ![k].pc = "write", ![k].kind = "answer", ![k].ip = entry.IP,
                                              ![k].a = entry.IP]
                /\ dqLock' = [dqLock EXCEPT !.readers = @ \ {k}]
           ELSE IF entry # NoCacheEntry
           THEN /\ dqTasks' = [dqTasks EXCEPT ![k].pc = "delete"]
                /\ UNCHANGED dqLock
           ELSE /\ dqTasks' = [dqTasks EXCEPT ![k].pc = "doh"]
                /\ dqLock' = [dqLock EXCEPT !.readers = @ \ {k}]
        /\ UNCHANGED <<dqBuf, dqCache, dqNow, dqOut, dqFatal>>
        /\ UNCHANGED exceptDns

\* another goroutine is inside its RLock section, reading or changing the map
DnsOverlap(k) == \E j \in 1..Len(dqTasks) : j # k /\ dqTasks[j].pc \in {"lookup", "delete", "insert"}

\* delete(h.cache.entries, dnsQuery.Domain) and RUnlock. fatal: the runtime detects the
\* concurrent map access and ends the process
DnsDelete(k, fatal) ==
    /\ DnsLive
    /\ dqTasks[k].pc = "delete"
    /\ fatal => DnsOverlap(k)
    /\ IF fatal
       THEN dqFatal' = TRUE /\ UNCHANGED <<dqTasks, dqCache, dqLock>>
       ELSE /\ dqCache' = [dqCache EXCEPT ![dqTasks[k].q.Domain] = NoCacheEntry]
            /\ dqLock' = [dqLock EXCEPT !.readers = @ \ {k}]
            /\ dqTasks' = [dqTasks EXCEPT ![k].pc = "doh"]
            /\ UNCHANGED dqFatal
    /\ UNCHANGED <<dqBuf, dqNow, dqOut>>
    /\ UNCHANGED exceptDns

\* ECSQuery and the extraction of the address; an error or no address gives the NXDOMAIN
\* response
DnsDoh(k, rsp) ==
    LET ip == ExtractIP(rsp.Answer, NoIP) IN
    /\ DnsLive
    /\ dqTasks[k].pc = "doh"
    /\ IF rsp.err # "none" \/ ip = NoIP
       THEN dqTasks' = [dqTasks EXCEPT ![k].pc = "write", ![k].kind = "nxdomain"]
       ELSE dqTasks' = [dqTasks EXCEPT ![k].pc = "lock", ![k].ip = ip, ![k].a = ip]
    /\ UNCHANGED <<dqBuf, dqCache, dqNow, dqLock, dqOut, dqFatal>>
    /\ UNCHANGED exceptDns

\* h.cache.mu.Lock()
DnsLock(k) ==
    /\ DnsLive
    /\ dqTasks[k].pc = "lock"
    /\ dqLock.writer = 0 /\ dqLock.readers = {}
    /\ dqLock' = [dqLock EXCEPT !.writer = k]
    /\ dqTasks' = [dqTasks EXCEPT ![k].pc = "insert"]
    /\ UNCHANGED <<dqBuf, dqCache, dqNow, dqOut, dqFatal>>
    /\ UNCHANGED exceptDns

\* the insertion with a lifetime of 60 seconds, Unlock, buildDNSResponse
DnsInsert(k) ==
    /\ DnsLive
    /\ dqTasks[k].pc = "insert"
    /\ dqCache' = [dqCache EXCEPT ![dqTasks[k].q.Domain] = [IP |-> dqTasks[k].ip, ExpiresAt |-> dqNow + 60]]
    /\ dqLock' = [dqLock EXCEPT !.writer = 0]
    /\ dqTasks' = [dqTasks EXCEPT ![k].pc = "write", ![k].kind = "answer"]
    /\ UNCHANGED <<dqBuf, dqNow, dqOut, dqFatal>>
    /\ UNCHANGED exceptDns

\* handlePacket: h.device.Write(response, 0)
DnsWrite(k) ==
    LET t == dqTasks[k] IN
    /\ DnsLive
    /\ t.pc = "write"
    /\ dqOut' = Append(dqOut, [k |-> k,
                               bytes |-> IF t.kind = "answer"
                                         THEN buildDNSResponse(t.src, t.dst, t.udp, t.q, t.ip)
                                         ELSE buildDNSErrorResponse(t.src, t.dst, t.udp, t.q, 3)])
    /\ dqTasks' = [dqTasks EXCEPT ![k].pc = "done"]
    /\ UNCHANGED <<dqBuf, dqCache, dqNow, dqLock, dqFatal>>
    /\ UNCHANGED exceptDns

\* time.Now() moves on
DnsTick(d) ==
    /\ DnsLive
    /\ dqNow + d <= MaxNow
    /\ dqNow' = dqNow + d
    /\ UNCHANGED <<dqBuf, dqTasks, dqCache, dqLock, dqOut, dqFatal>>
    /\ UNCHANGED exceptDns

\* NewDNSHandler, and the cache as earlier queries can have left it: empty, or holding
\* a.io until second 30
DnsInit ==
    /\ dqBuf = <<>>
    /\ dqTasks = <<>>
    /\ dqCache \in { [d \in {DomainA, DomainB} |-> NoCacheEntry],
                     [d \in {DomainA, DomainB} |-> IF d = DomainA THEN [IP |-> <<9, 9, 9, 9>>, ExpiresAt |-> 30]
                                                   ELSE NoCacheEntry] }
    /\ dqNow = 0
    /\ dqLock = [readers |-> {}, writer |-> 0]
    /\ dqOut = <<>>
    /\ dqFatal = FALSE
DnsIdle ==
    /\ dqBuf = <<>>
    /\ dqTasks = <<>>
    /\ dqCache = [d \in {DomainA, DomainB} |-> NoCacheEntry]
    /\ dqNow = 0
    /\ dqLock = [readers |-> {}, writer |-> 0]
    /\ dqOut = <<>>
    /\ dqFatal = FALSE
DnsNext ==
    \/ \E pkt \in DnsPackets : DnsDeviceRead(pkt)
    \/ \E k \in 1..Len(dqTasks) : DnsTaskParse(k)
    \/ \E k \in 1..Len(dqTasks) : DnsRLock(k)
    \/ \E k \in 1..Len(dqTasks) : DnsLookup(k)
    \/ \E k \in 1..Len(dqTasks), fatal \in BOOLEAN : DnsDelete(k, fatal)
    \/ \E k \in 1..Len(dqTasks), rsp \in DnsDohResults : DnsDoh(k, rsp)
    \/ \E k \in 1..Len(dqTasks) : DnsLock(k)
    \/ \E k \in 1..Len(dqTasks) : DnsInsert(k)
    \/ \E k \in 1..Len(dqTasks) : DnsWrite(k)
    \/ \E d \in {30, 60} : DnsTick(d)

(***************************************************************************)
(* the DNS interceptor: properties                                         *)
(***************************************************************************)
\* a captured packet is a well-formed query: IPv4 with a 20-byte header, UDP to port 53,
\* a DNS message with QR = 0 and one question whose name parses
IsDnsQuery(pkt) ==
    /\ Len(pkt) >= 45
    /\ pkt[1] = 69 /\ pkt[10] = IPProtocolUDP
    /\ BeUint16(SubSeq(pkt, 23, 24)) = 53
    /\ pkt[31] < 128
    /\ BeUint16(SubSeq(pkt, 33, 34)) = 1
    /\ parseDNSQuery(SubSeq(pkt, 29, Len(pkt))).err = "none"
QueryName(pkt) == parseDNSQuery(SubSeq(pkt, 29, Len(pkt))).Domain
\* the offset of the answer section in an emitted packet: after the question, which ends
\* four bytes after the first zero byte of its name
AnswerAt(bytes) == (CHOOSE i \in 41..Len(bytes) : bytes[i] = 0 /\ \A j \in 41..(i - 1) : bytes[j] # 0) + 5
IsStatedReply(query, a, bytes) ==
    /\ SubSeq(bytes, 29, 30) = SubSeq(query, 29, 30)
    /\ bytes[31] >= 128
    /\ BeUint16(SubSeq(bytes, 33, 34)) = 1
    /\ BeUint16(SubSeq(bytes, 35, 36)) = 1
    /\ Len(bytes) = AnswerAt(bytes) + 15
    /\ SubSeq(bytes, AnswerAt(bytes) + 2, Len(bytes)) = <<0, 1, 0, 1, 0, 0, 0, 60, 0, 4>> \o a
    /\ SubSeq(bytes, 21, 22) = SubSeq(query, 23, 24)
    /\ SubSeq(bytes, 23, 24) = SubSeq(query, 21, 22)
    /\ SubSeq(bytes, 13, 16) = SubSeq(query, 17, 20)
    /\ SubSeq(bytes, 17, 20) = SubSeq(query, 13, 16)
\* the packet emitted for a well-formed query whose name resolved to the IPv4 address a
DnsResolved(i) ==
    LET t == dqTasks[dqOut[i].k] IN
    /\ IsDnsQuery(t.query)
    /\ t.a # NoIP
    /\ t.q.Domain = QueryName(t.query)
\* C28: the packet emitted for a well-formed query whose name resolves to a carries the
\* query's id, QR = 1, QDCOUNT = 1, ANCOUNT = 1, one answer TYPE 1 CLASS 1 TTL 60
\* RDLENGTH 4 RDATA a, and the query's ports and addresses swapped.
C28_DnsReply ==
    \A i \in 1..Len(dqOut) :
        DnsResolved(i) => IsStatedReply(dqTasks[dqOut[i].k].query, dqTasks[dqOut[i].k].a, dqOut[i].bytes)
\* the same for the goroutines that parsed before the next device read
C28_DnsReplyUnraced ==
    \A i \in 1..Len(dqOut) :
        (DnsResolved(i) /\ ~dqTasks[dqOut[i].k].raced)
            => IsStatedReply(dqTasks[dqOut[i].k].query, dqTasks[dqOut[i].k].a, dqOut[i].bytes)
C28_UnracedWitness ==
    \E i \in 1..Len(dqOut) :
        /\ DnsResolved(i) /\ ~dqTasks[dqOut[i].k].raced
        /\ dqTasks[dqOut[i].k].a = <<9, 9, 9, 9>>
        /\ \E j \in 1..Len(dqOut) : DnsResolved(j) /\ dqTasks[dqOut[j].k].a = <<5, 6, 7, 8>>

\* C29: a goroutine that inserts into or deletes from the cache map holds the write lock,
\* and no other goroutine is reading or changing the map at that moment.
C29_MutationUnderWriteLock ==
    \A k \in 1..Len(dqTasks) :
        dqTasks[k].pc \in {"delete", "insert"} => dqLock.writer = k /\ ~DnsOverlap(k)
\* the insertion alone
C29_InsertUnderWriteLock ==
    \A k \in 1..Len(dqTasks) :
        dqTasks[k].pc = "insert" => dqLock.writer = k /\ dqLock.readers = {} /\ ~DnsOverlap(k)

(***************************************************************************)
(* one flow of the virtual interface: its record, its return-path          *)
(* forwarder (forwardSocks5ToTun) and the packets written to its egress    *)
(***************************************************************************)
MaxFwdSend == 2
MaxFwdPackets == 2

\* handlePacket for a data packet of the flow: the record is found in h.connections;
\* under conn.mu the payload is written unless closed is set; a write error sets closed.
\* A write to a transport that was closed fails.
FwdPacketWrite(wok) ==
    /\ fwTable
    /\ fwPackets < MaxFwdPackets
    /\ fwConn.transportClosed => ~wok
    /\ fwPackets' = fwPackets + 1
    /\ IF fwConn.closed THEN UNCHANGED <<fwConn, fwOut, fwFailed>>
       ELSE IF wok THEN fwOut' = fwOut + 1 /\ UNCHANGED <<fwConn, fwFailed>>
       ELSE fwConn' = [fwConn EXCEPT !.closed = TRUE] /\ fwFailed' = TRUE /\ UNCHANGED fwOut
    /\ UNCHANGED <<fwPc, fwTable, fwCount, fwPeer, fwDelivered>>
    /\ UNCHANGED exceptFwd

\* the egress peer sends a chunk
FwdEgressSends ==
    /\ ~fwPeer.closed
    /\ fwPeer.sent < MaxFwdSend
    /\ fwPeer' = [fwPeer EXCEPT !.sent = @ + 1, !.pending = @ + 1]
    /\ UNCHANGED <<fwPc, fwConn, fwTable, fwCount, fwPackets, fwOut, fwFailed, fwDelivered>>
    /\ UNCHANGED exceptFwd

\* the egress peer closes, or the transport breaks
FwdEgressCloses ==
    /\ ~fwPeer.closed
    /\ fwPeer' = [fwPeer EXCEPT !.closed = TRUE]
    /\ UNCHANGED <<fwPc, fwConn, fwTable, fwCount, fwPackets, fwOut, fwFailed, fwDelivered>>
    /\ UNCHANGED exceptFwd

\* forwardSocks5ToTun, top of the loop: under conn.mu, leave the loop if closed is set,
\* else call readConn.Read
FwdLoopTop ==
    /\ fwPc = "top"
    /\ fwPc' = IF fwConn.closed THEN "cleanup" ELSE "read"
    /\ UNCHANGED <<fwConn, fwTable, fwCount, fwPeer, fwPackets, fwOut, fwFailed, fwDelivered>>
    /\ UNCHANGED exceptFwd

\* readConn.Read returns: a chunk, or an error once the peer has closed and nothing is left
\* to read; the error sets closed. The call has no deadline.
FwdReadReturns ==
    /\ fwPc = "read"
    /\ fwPeer.pending > 0 \/ fwPeer.closed
    /\ IF fwPeer.pending > 0
       THEN /\ fwPeer' = [fwPeer EXCEPT !.pending = @ - 1]
            /\ fwPc' = "deliver"
            /\ UNCHANGED fwConn
       ELSE /\ fwConn' = [fwConn EXCEPT !.closed = TRUE]
            /\ fwPc' = "cleanup"
            /\ UNCHANGED fwPeer
    /\ UNCHANGED <<fwTable, fwCount, fwPackets, fwOut, fwFailed, fwDelivered>>
    /\ UNCHANGED exceptFwd

\* BuildIPPacket and h.device.Write; an error leaves the loop
FwdDeviceWrite(ok) ==
    /\ fwPc = "deliver"
    /\ fwPc' = IF ok THEN "top" ELSE "cleanup"
    /\ fwDelivered' = IF ok THEN fwDelivered + 1 ELSE fwDelivered
    /\ UNCHANGED <<fwConn, fwTable, fwCount, fwPeer, fwPackets, fwOut, fwFailed>>
    /\ UNCHANGED exceptFwd

\* after the loop: delete(h.connections, conn.ID), connCount--, Close of the transport
FwdCleanup ==
    /\ fwPc = "cleanup"
    /\ fwPc' = "done"
    /\ fwTable' = FALSE
    /\ fwCount' = fwCount - 1
    /\ fwConn' = [fwConn EXCEPT !.transportClosed = TRUE, !.counted = FALSE]
    /\ UNCHANGED <<fwPeer, fwPackets, fwOut, fwFailed, fwDelivered>>
    /\ UNCHANGED exceptFwd

\* the flow was created: its record is in the table, its increment of connCount is
\* outstanding, its forwarder starts; other flows may be counted too
FwdInit ==
    /\ fwPc = "top"
    /\ fwConn = [closed |-> FALSE, transportClosed |-> FALSE, counted |-> TRUE]
    /\ fwTable = TRUE
    /\ fwCount \in {1, 2}
    /\ fwPeer = [pending |-> 0, sent |-> 0, closed |-> FALSE]
    /\ fwPackets = 0
    /\ fwOut = 0
    /\ fwFailed = FALSE
    /\ fwDelivered = 0
FwdIdle ==
    /\ fwPc = "done"
    /\ fwConn = [closed |-> TRUE, transportClosed |-> TRUE, counted |-> FALSE]
    /\ fwTable = FALSE
    /\ fwCount = 0
    /\ fwPeer = [pending |-> 0, sent |-> 0, closed |-> TRUE]
    /\ fwPackets = 0
    /\ fwOut = 0
    /\ fwFailed = FALSE
    /\ fwDelivered = 0
FwdNext ==
    \/ \E wok \in BOOLEAN : FwdPacketWrite(wok)
    \/ FwdEgressSends
    \/ FwdEgressCloses
    \/ FwdLoopTop
    \/ FwdReadReturns
    \/ \E ok \in BOOLEAN : FwdDeviceWrite(ok)
    \/ FwdCleanup

(***************************************************************************)
(* one flow of the virtual interface: properties                           *)
(***************************************************************************)
FwdWriteFailed == fwFailed /\ fwConn.closed
FwdReleased == ~fwTable /\ fwConn.transportClosed /\ ~fwConn.counted
\* C30: after a write to the egress transport failed and the record was marked closed,
\* the record is eventually removed from the flow table, the transport closed and the
\* counter decremented, whatever the egress peer does.
C30_ClosedFlowReleased == FwdWriteFailed ~> FwdReleased
\* the same once the peer has closed, and for a forwarder that is not inside Read
C30_ReleasedAfterPeerCloses == (FwdWriteFailed /\ fwPeer.closed) ~> FwdReleased
C30_ReleasedOutsideRead == (FwdWriteFailed /\ fwPc # "read") ~> FwdReleased

(***************************************************************************)
(* parseDNSName, one iteration of its loop at a time                       *)
(***************************************************************************)
MaxNameLen == 4
\* every message of up to MaxNameLen bytes over a terminator, label lengths 1 and 2 and the
\* pointer byte 0xC0, and chains of n pointers, each to the next, before a terminator
NameBytes == {0, 1, 2, 192}
PointerChain(n) == [i \in 1..(2 * n + 1) |-> IF i = 2 * n + 1 THEN 0 ELSE IF i % 2 = 1 THEN 192 ELSE i]
NameMessages == SeqsUpTo(NameBytes, MaxNameLen) \cup {PointerChain(n) : n \in 4..7}
NoName == [err |-> "unset", name |-> <<>>, off |-> 0]

\* an iteration that goes round again: a pointer followed, or a label appended
NameLoopStep ==
    LET length == pnData[pnOff + 1]
        off1   == pnOff + 1
    IN  /\ pnPc = "loop"
        /\ ~TooManyJumps(pnJumps)
        /\ pnOff < Len(pnData)
        /\ length # 0
        /\ IF length \div 64 = 3
           THEN /\ off1 < Len(pnData)
                /\ pnOff' = (length % 64) * 256 + pnData[off1 + 1]
                /\ pnOrig' = IF pnJumped THEN pnOrig ELSE off1 + 1
                /\ pnJumped' = TRUE
                /\ pnJumps' = pnJumps + 1
                /\ UNCHANGED pnName
           ELSE /\ off1 + length <= Len(pnData)
                /\ pnName' = (IF Len(pnName) > 0 THEN pnName \o <<".">> ELSE pnName)
                                 \o BytesToString(SubSeq(pnData, off1 + 1, off1 + length))
                /\ pnOff' = off1 + length
                /\ UNCHANGED <<pnOrig, pnJumped, pnJumps>>
        /\ UNCHANGED <<pnData, pnStart, pnPc, pnResult>>
        /\ UNCHANGED exceptName

\* an iteration that returns: one of the four errors, or the terminator
NameLoopReturn ==
    LET length == pnData[pnOff + 1]
        off1   == pnOff + 1
        fail(e) == [err |-> e, name |-> <<>>, off |-> 0]
    IN  /\ pnPc = "loop"
        /\ \/ /\ TooManyJumps(pnJumps)
              /\ pnResult' = fail("too many DNS jumps")
           \/ /\ ~TooManyJumps(pnJumps) /\ pnOff >= Len(pnData)
              /\ pnResult' = fail("DNS name parsing out of bounds")
           \/ /\ ~TooManyJumps(pnJumps) /\ pnOff < Len(pnData) /\ length = 0
              /\ pnResult' = [err |-> "none", name |-> pnName, off |-> IF pnJumped THEN pnOrig ELSE off1]
           \/ /\ ~TooManyJumps(pnJumps) /\ pnOff < Len(pnData) /\ length \div 64 = 3 /\ off1 >= Len(pnData)
              /\ pnResult' = fail("DNS pointer out of bounds")
           \/ /\ ~TooManyJumps(pnJumps) /\ pnOff < Len(pnData) /\ length # 0 /\ length \div 64 # 3
              /\ off1 + length > Len(pnData)
              /\ pnResult' = fail("DNS label out of bounds")
        /\ pnPc' = "done"
        /\ UNCHANGED <<pnData, pnStart, pnOff, pnName, pnOrig, pnJumped, pnJumps>>
        /\ UNCHANGED exceptName

\* the call parseDNSName(data, offset), before the first iteration
NameInit ==
    /\ pnData \in NameMessages
    /\ pnStart \in 0..(Len(pnData) + 1)
    /\ pnOff = pnStart
    /\ pnName = <<>>
    /\ pnOrig = pnStart
    /\ pnJumped = FALSE
    /\ pnJumps = 0
    /\ pnPc = "loop"
    /\ pnResult = NoName
NameIdle ==
    /\ pnData = <<>>
    /\ pnStart = 0
    /\ pnOff = 0
    /\ pnName = <<>>
    /\ pnOrig = 0
    /\ pnJumped = FALSE
    /\ pnJumps = 0
    /\ pnPc = "done"
    /\ pnResult = [err |-> "DNS name parsing out of bounds", name |-> <<>>, off |-> 0]
NameNext ==
    \/ NameLoopStep
    \/ NameLoopReturn

(***************************************************************************)
(* parseDNSName: properties                                                *)
(***************************************************************************)
\* the pointer jumps the name at offset needs, counted up to budget + 1: the walk over
\* the wire format as it is defined, with no cap
RECURSIVE JumpsNeeded(_, _, _)
JumpsNeeded(data, offset, budget) ==
    IF offset >= Len(data) \/ data[offset + 1] = 0 THEN 0
    ELSE IF data[offset + 1] \div 64 = 3
         THEN IF offset + 1 >= Len(data) THEN 0
              ELSE IF budget = 0 THEN 1
              ELSE 1 + JumpsNeeded(data, (data[offset + 1] % 64) * 256 + data[offset + 2], budget - 1)
    ELSE IF offset + 1 + data[offset + 1] > Len(data) THEN 0
    ELSE JumpsNeeded(data, offset + 1 + data[offset + 1], budget)
NameReturned == pnPc = "done" /\ pnResult # NoName
\* C32: parseDNSName returns for every message and start offset, and with an error
\* whenever the name needs more than 5 pointer jumps.
C32_ParseNameTerminates ==
    /\ [](NameReturned /\ JumpsNeeded(pnData, pnStart, 7) > 5 => pnResult.err # "none")
    /\ (pnPc = "loop" ~> NameReturned)
\* a pointer that points to itself was walked and refused
C32_Witness ==
    /\ NameReturned
    /\ pnData = <<192, 0>> /\ pnStart = 0
    /\ pnResult.err = "too many DNS jumps"
\* a name behind exactly five jumps is decoded, and the loop agrees with parseDNSName
C32_FiveJumpsWitness ==
    /\ NameReturned
    /\ pnData = PointerChain(5) /\ pnStart = 0
    /\ pnResult.err = "none" /\ pnJumps = 5
C32_SameAsOperator == NameReturned => pnResult = parseDNSName(pnData, pnStart)

(***************************************************************************)
(* SetupRoutes, counting the routes one run installs                       *)
(***************************************************************************)
MaxRouteFails == 1
\* the limit of addChinaIPRoutes, the only route loop that has one; SetupRoutes does not
\* call it
maxRoutes == 1000
\* how many IPv4 addresses net.LookupIP gives for the peer, and how many CIDR and IP-range
\* rules the whitelist holds
PeerCounts == {0, 2}
WhiteCounts == {0, 3, 992, 993, 1001}
\* the addRoute calls of one stage: peers, the networks of addLocalNetworkRoutes, whitelist
RqStageCalls(stage) ==
    IF stage = "peer" THEN rqPlan.peers
    ELSE IF stage = "local" THEN Len(LocalNetworks)
    ELSE rqPlan.white

\* one addRoute of addRemoteServerRoute, addLocalNetworkRoutes or addWhiteListRoutes; a
\* failure is logged and the loop goes on
RqAddRoute(ok) ==
    /\ rqStage \in {"peer", "local", "white"}
    /\ rqIdx < RqStageCalls(rqStage)
    /\ ~ok => rqFails < MaxRouteFails
    /\ rqIdx' = rqIdx + 1
    /\ rqInstalled' = IF ok THEN rqInstalled + 1 ELSE rqInstalled
    /\ rqFails' = IF ok THEN rqFails ELSE rqFails + 1
    /\ UNCHANGED <<rqStage, rqPlan>>
    /\ UNCHANGED exceptRq

\* the loop of a stage is over
RqStageDone ==
    /\ rqStage \in {"peer", "local", "white"}
    /\ rqIdx = RqStageCalls(rqStage)
    /\ rqStage' = NextStage(rqStage)
    /\ rqIdx' = 0
    /\ UNCHANGED <<rqInstalled, rqFails, rqPlan>>
    /\ UNCHANGED exceptRq

\* setDefaultRoute
RqSetDefaultRoute(ok) ==
    /\ rqStage = "default"
    /\ rqStage' = IF ok THEN "done" ELSE "failed"
    /\ rqInstalled' = IF ok THEN rqInstalled + 1 ELSE rqInstalled
    /\ UNCHANGED <<rqIdx, rqFails, rqPlan>>
    /\ UNCHANGED exceptRq

\* SetupRoutes after BackupRoutes
RqInit ==
    /\ rqPlan \in {[peers |-> p, white |-> w] : p \in PeerCounts, w \in WhiteCounts}
    /\ rqStage = "peer"
    /\ rqIdx = 0
    /\ rqInstalled = 0
    /\ rqFails = 0
RqIdle ==
    /\ rqPlan = [peers |-> 0, white |-> 0]
    /\ rqStage = "done"
    /\ rqIdx = 0
    /\ rqInstalled = 0
    /\ rqFails = 0
RqNext ==
    \/ \E ok \in BOOLEAN : RqAddRoute(ok)
    \/ RqStageDone
    \/ \E ok \in BOOLEAN : RqSetDefaultRoute(ok)

(***************************************************************************)
(* SetupRoutes, counting: properties                                       *)
(***************************************************************************)
\* C33: one run of SetupRoutes installs at most 1000 routes.
C33_RouteCap == rqInstalled <= maxRoutes

(***************************************************************************)
(* the packet-read loop of the virtual interface (Handler.Start) and       *)
(* Service.Stop, which closes the device under it                          *)
(***************************************************************************)
MaxLoopPackets == 3
MaxLoopQueue == 2
\* what the device hands to one Read: a packet that parses, bytes that do not parse, or
\* a read of zero bytes
DeviceReads == {"packet", "garbage", "empty"}
\* the error Read returns on a closed device: os.File.Read gives "file already closed"
\* (os.ErrClosed in a PathError), the wireguard device gives os.ErrClosed or "EOF"
ClosedReadErrors == {"EOF", "file already closed", "bad file descriptor"}

\* a packet arrives at the open device
LoopPacketArrives(p) ==
    /\ lpDevice = "up"
    /\ lpArrived < MaxLoopPackets
    /\ Len(lpQueue) < MaxLoopQueue
    /\ lpQueue' = Append(lpQueue, p)
    /\ lpArrived' = lpArrived + 1
    /\ UNCHANGED <<lpPc, lpDevice, lpClosedErr, lpErr, lpSpawned>>
    /\ UNCHANGED exceptLoop

\* Service.Stop: RestoreRoutes, device.Down, device.Close; nothing is said to the handler
ServiceStop ==
    /\ lpDevice = "up"
    /\ lpDevice' = "closed"
    /\ UNCHANGED <<lpPc, lpQueue, lpClosedErr, lpErr, lpArrived, lpSpawned>>
    /\ UNCHANGED exceptLoop

\* h.device.Read returns: with the device's error once it is closed, else with the next
\* queued read (it blocks while the queue is empty). io.EOF breaks the loop, any other
\* error is logged, n == 0 goes back to Read, other bytes go to ParseIPPacket.
StartReadReturns ==
    /\ lpPc = "read"
    /\ lpDevice = "closed" \/ lpQueue # <<>>
    /\ IF lpDevice = "closed"
       THEN /\ lpErr' = lpClosedErr
            /\ lpPc' = IF lpClosedErr = "EOF" THEN "returned" ELSE "logError"
            /\ UNCHANGED lpQueue
       ELSE /\ lpErr' = "none"
            /\ lpQueue' = Tail(lpQueue)
            /\ lpPc' = CASE Head(lpQueue) = "empty" -> "read"
                         [] Head(lpQueue) = "garbage" -> "logWarn"
                         [] OTHER -> "spawn"
    /\ UNCHANGED <<lpDevice, lpClosedErr, lpArrived, lpSpawned>>
    /\ UNCHANGED exceptLoop

\* logger.Error "failed to read from TUN", then continue
StartLogsReadError ==
    /\ lpPc = "logError"
    /\ lpPc' = "read"
    /\ UNCHANGED <<lpDevice, lpQueue, lpClosedErr, lpErr, lpArrived, lpSpawned>>
    /\ UNCHANGED exceptLoop

\* ParseIPPacket failed: logger.Warn, then continue
StartLogsParseError ==
    /\ lpPc = "logWarn"
    /\ lpPc' = "read"
    /\ UNCHANGED <<lpDevice, lpQueue, lpClosedErr, lpErr, lpArrived, lpSpawned>>
    /\ UNCHANGED exceptLoop

\* go h.handlePacket(ipPkt)
StartSpawnsHandler ==
    /\ lpPc = "spawn"
    /\ lpPc' = "read"
    /\ lpSpawned' = lpSpawned + 1
    /\ UNCHANGED <<lpDevice, lpQueue, lpClosedErr, lpErr, lpArrived>>
    /\ UNCHANGED exceptLoop

\* Service.Start has called Handler.Start on an open device
LoopInit ==
    /\ lpPc = "read"
    /\ lpDevice = "up"
    /\ lpQueue = <<>>
    /\ lpClosedErr \in ClosedReadErrors
    /\ lpErr = "none"
    /\ lpArrived = 0
    /\ lpSpawned = 0
LoopIdle ==
    /\ lpPc = "returned"
    /\ lpDevice = "closed"
    /\ lpQueue = <<>>
    /\ lpClosedErr = "EOF"
    /\ lpErr = "none"
    /\ lpArrived = 0
    /\ lpSpawned = 0
LoopNext ==
    \/ \E p \in DeviceReads : LoopPacketArrives(p)
    \/ ServiceStop
    \/ StartReadReturns
    \/ StartLogsReadError
    \/ StartLogsParseError
    \/ StartSpawnsHandler

(***************************************************************************)
(* the packet-read loop: properties                                        *)
(***************************************************************************)
LoopStopped == lpDevice = "closed"
LoopReturned == lpPc = "returned"
\* C34: after the service is stopped and its device closed, the read loop terminates
\* after finitely many steps, whatever error the closed device's Read returns.
C34_LoopTerminates == LoopStopped ~> LoopReturned
\* it does when the closed device's Read returns io.EOF
C34_TerminatesOnEOF == (LoopStopped /\ lpClosedErr = "EOF") ~> LoopReturned
\* with any other error the loop never leaves Read and the error log
C34_SpinsOnOtherError ==
    [](LoopStopped /\ lpClosedErr # "EOF" => [](lpPc \in {"read", "logError", "logWarn", "spawn"}))

(***************************************************************************)
(* the UDP socket of a SOCKS5 UDP_ASSOCIATE session: bound by Handshake    *)
(* (net.ListenUDP), used by the relay loops of SocketServer.Start          *)
(***************************************************************************)
MaxAssocRelay == 2
MaxAssocSessions == 2
\* the command and address type bytes of the requests (buf[1], buf[3])
AssocRequests == {[cmd |-> c, atyp |-> a] : c \in {CmdConnect, CmdUDPAssociate, 2},
                                             a \in {ATypIP4, ATypDomain, ATypIP6, 0}}
NoRequest == [cmd |-> 0, atyp |-> 0]

\* l.Accept, the hello exchange and the read of a command message of 7 bytes or more
AssocAccept(req) ==
    /\ asPc = "idle"
    /\ asEnded < MaxAssocSessions
    /\ asPc' = "cmd"
    /\ asReq' = req
    /\ UNCHANGED <<asSock, asBack, asUp, asDown, asErr, asEnded, asLeft>>
    /\ UNCHANGED exceptAssoc

\* the goroutine of Start returns: its defers close conn, and wConn and rConn once the
\* dial succeeded; none of them touches target.UdpConn
SessionReturns(e) ==
    /\ asPc' = "returned"
    /\ asErr' = e

\* switch cmd: CONNECT goes on; UDP_ASSOCIATE binds the socket with net.ListenUDP (ok: the
\* bind succeeds) and writes the reply with the bound address (wok: the write succeeds);
\* any other command is an error
AssocCommand(ok, wok) ==
    /\ asPc = "cmd"
    /\ IF asReq.cmd = CmdConnect
       THEN asPc' = "atyp" /\ UNCHANGED <<asSock, asErr>>
       ELSE IF asReq.cmd # CmdUDPAssociate
       THEN SessionReturns("unsuppoted command") /\ UNCHANGED asSock
       ELSE IF ~ok
       THEN SessionReturns("cannot listen udp") /\ UNCHANGED asSock
       ELSE /\ asSock' = "open"
            /\ IF wok THEN asPc' = "atyp" /\ UNCHANGED asErr
               ELSE SessionReturns("reply accept udp err")
    /\ UNCHANGED <<asReq, asBack, asUp, asDown, asEnded, asLeft>>
    /\ UNCHANGED exceptAssoc

\* switch buf[3], the length test against the 4096-byte buffer, the address, and the
\* command response (wok: the write succeeds)
AssocAddress(wok) ==
    /\ asPc = "atyp"
    /\ IF asReq.atyp \notin {ATypIP4, ATypIP6, ATypDomain}
       THEN SessionReturns("unknown address type")
       ELSE IF ~wok
       THEN SessionReturns("failed to write command response")
       ELSE asPc' = "dial" /\ UNCHANGED asErr
    /\ UNCHANGED <<asReq, asSock, asBack, asUp, asDown, asEnded, asLeft>>
    /\ UNCHANGED exceptAssoc

\* route.GetRemote and remote.Handshake; on success the relay goroutine is started
AssocDial(ok) ==
    /\ asPc = "dial"
    /\ IF ok
       THEN asPc' = "relay" /\ asBack' = "running" /\ UNCHANGED asErr
       ELSE SessionReturns("dial") /\ UNCHANGED asBack
    /\ UNCHANGED <<asReq, asSock, asUp, asDown, asEnded, asLeft>>
    /\ UNCHANGED exceptAssoc

\* the second goroutine: rConn.Read, target.UdpConn.WriteTo (io.Copy(rConn, wConn) for
\* CONNECT); an error ends it (done <- err)
AssocRelayDown(ok) ==
    /\ asBack = "running"
    /\ IF ok
       THEN asDown < MaxAssocRelay /\ asDown' = asDown + 1 /\ UNCHANGED asBack
       ELSE asBack' = "done" /\ UNCHANGED asDown
    /\ UNCHANGED <<asPc, asReq, asSock, asUp, asErr, asEnded, asLeft>>
    /\ UNCHANGED exceptAssoc

\* the session goroutine: target.UdpConn.ReadFrom, rConn.Write (io.Copy(wConn, rConn) for
\* CONNECT); an error leaves the loop
AssocRelayUp(ok) ==
    /\ asPc = "relay"
    /\ IF ok
       THEN asUp < MaxAssocRelay /\ asUp' = asUp + 1 /\ UNCHANGED asPc
       ELSE /\ asPc' = (IF asReq.cmd = CmdUDPAssociate THEN "wait" ELSE "returned")
            /\ UNCHANGED asUp
    /\ UNCHANGED <<asReq, asSock, asBack, asDown, asErr, asEnded, asLeft>>
    /\ UNCHANGED exceptAssoc

\* err1 := <-done, return
AssocWaitDone ==
    /\ asPc = "wait"
    /\ asBack = "done"
    /\ asPc' = "returned"
    /\ UNCHANGED <<asReq, asSock, asBack, asUp, asDown, asErr, asEnded, asLeft>>
    /\ UNCHANGED exceptAssoc

\* the session is over; Start's loop accepts the next connection
AssocNextSession ==
    /\ asPc = "returned"
    /\ asPc' = "idle"
    /\ asEnded' = asEnded + 1
    /\ asLeft' = IF asSock = "open" THEN asLeft + 1 ELSE asLeft
    /\ asReq' = NoRequest
    /\ asSock' = "none"
    /\ asBack' = "none"
    /\ asUp' = 0
    /\ asDown' = 0
    /\ asErr' = "none"
    /\ UNCHANGED exceptAssoc

AssocInit ==
    /\ asPc = "idle"
    /\ asReq = NoRequest
    /\ asSock = "none"
    /\ asBack = "none"
    /\ asUp = 0
    /\ asDown = 0
    /\ asErr = "none"
    /\ asEnded = 0
    /\ asLeft = 0
AssocIdle ==
    /\ asPc = "idle"
    /\ asReq = NoRequest
    /\ asSock = "none"
    /\ asBack = "none"
    /\ asUp = 0
    /\ asDown = 0
    /\ asErr = "none"
    /\ asEnded = MaxAssocSessions
    /\ asLeft = 0
AssocNext ==
    \/ \E req \in AssocRequests : AssocAccept(req)
    \/ \E ok \in BOOLEAN, wok \in BOOLEAN : AssocCommand(ok, wok)
    \/ \E wok \in BOOLEAN : AssocAddress(wok)
    \/ \E ok \in BOOLEAN : AssocDial(ok)
    \/ \E ok \in BOOLEAN : AssocRelayDown(ok)
    \/ \E ok \in BOOLEAN : AssocRelayUp(ok)
    \/ AssocWaitDone
    \/ AssocNextSession

(***************************************************************************)
(* the UDP socket of a UDP_ASSOCIATE session: properties                   *)
(***************************************************************************)
\* C38: a UDP socket bound by the handshake is closed by the time its session task ends,
\* when the handshake fails after the bind and when the relay loop has terminated.
C38_UdpSocketClosed == (asPc = "returned" => asSock # "open") /\ asLeft = 0
\* the socket is bound for UDP_ASSOCIATE only, and no step closes it
C38_BoundForAssociate == asSock = "open" => asReq.cmd = CmdUDPAssociate
C38_NeverClosed == asSock # "closed"
C38_RelayEndedWitness == asPc = "returned" /\ asSock = "open" /\ asBack = "done" /\ asUp > 0

(***************************************************************************)
(* the packets the return-path forwarder writes to the device              *)
(* (forwardSocks5ToTun: readConn.Read, BuildUDPPacket, BuildIPPacket,      *)
(* h.device.Write)                                                         *)
(***************************************************************************)
MaxEmitWrites == 2
\* len(buf) of the forwarder's read buffer
ReadBufLen == 65535
\* the byte counts readConn.Read returns: small chunks, a full Ethernet payload, and the
\* sizes around which 20 + n, 28 + n and 8 + n pass 65535
ChunkSizes == {1, 2, 1472, 65507, 65508, 65515, 65516, 65527, 65528, ReadBufLen}
\* the flows: protocol, client port, server port
EmitFlows == {[Protocol |-> p, SrcPort |-> 40000, DstPort |-> d] : p \in {IPProtocolTCP, IPProtocolUDP}, d \in {53, 443}}
NoEmit == [head |-> <<>>, size |-> 0, payload |-> 0]

\* BuildUDPPacket: source port, destination port, length = 8 + payload in the 16-bit length
\* field, checksum 0, payload
BuildUDPPacket(srcPort, dstPort, payload) ==
    PutUint16(srcPort) \o PutUint16(dstPort) \o PutUint16(Uint16(8 + Len(payload))) \o <<0, 0>> \o payload

\* the packet forwardSocks5ToTun builds for a chunk of n bytes
ReturnPacket(conn, chunk) ==
    IF conn.Protocol = IPProtocolUDP
    THEN BuildIPPacket(IpAbroad, IpTunNet, IPProtocolUDP, BuildUDPPacket(conn.DstPort, conn.SrcPort, chunk))
    ELSE BuildIPPacket(IpAbroad, IpTunNet, conn.Protocol, chunk)

\* readConn.Read(buf) returns n bytes, 1 <= n <= len(buf)
EmitRead(n) ==
    /\ emPc = "read"
    /\ emWrites < MaxEmitWrites
    /\ n \in 1..ReadBufLen
    /\ emChunk' = n
    /\ emPc' = "build"
    /\ UNCHANGED <<emConn, emLast, emWrites>>
    /\ UNCHANGED exceptEmit

\* the packet is built from buf[:n] and written with h.device.Write; a write error leaves
\* the loop
EmitWrite(ok) ==
    /\ emPc = "build"
    /\ LET pkt == ReturnPacket(emConn, [i \in 1..emChunk |-> 0])
       IN  emLast' = [head |-> SubSeq(pkt, 1, IF emConn.Protocol = IPProtocolUDP THEN 28 ELSE 20),
                      size |-> Len(pkt), payload |-> emChunk]
    /\ emWrites' = emWrites + 1
    /\ emPc' = IF ok THEN "read" ELSE "cleanup"
    /\ UNCHANGED <<emConn, emChunk>>
    /\ UNCHANGED exceptEmit

\* readConn.Read returns an error: the loop ends
EmitReadFails ==
    /\ emPc = "read"
    /\ emPc' = "cleanup"
    /\ UNCHANGED <<emConn, emChunk, emLast, emWrites>>
    /\ UNCHANGED exceptEmit

\* go h.forwardSocks5ToTun(conn) for a new flow
EmitInit ==
    /\ emPc = "read"
    /\ emConn \in EmitFlows
    /\ emChunk = 0
    /\ emLast = NoEmit
    /\ emWrites = 0
EmitIdle ==
    /\ emPc = "cleanup"
    /\ emConn = [Protocol |-> IPProtocolTCP, SrcPort |-> 40000, DstPort |-> 443]
    /\ emChunk = 0
    /\ emLast = NoEmit
    /\ emWrites = 0
EmitNext ==
    \/ \E n \in ChunkSizes : EmitRead(n)
    \/ \E ok \in BOOLEAN : EmitWrite(ok)
    \/ EmitReadFails

(***************************************************************************)
(* the packets the return-path forwarder writes: properties                *)
(***************************************************************************)
EmitTotalLength == BeUint16(SubSeq(emLast.head, 3, 4))
EmitUdpLength == BeUint16(SubSeq(emLast.head, 25, 26))
\* C40: every packet the return-path forwarder writes carries a total-length field equal
\* to its length in bytes and, for a UDP flow, a UDP length field equal to 8 plus the
\* payload length, for every chunk size from 1 to 65535.
C40_LengthFields ==
    emLast # NoEmit =>
        /\ EmitTotalLength = emLast.size
        /\ emConn.Protocol = IPProtocolUDP => EmitUdpLength = 8 + emLast.payload
\* the fields are right as long as the packet is not longer than 65535 bytes
C40_FitsInSixteenBits ==
    (emLast # NoEmit /\ emLast.size <= 65535) =>
        /\ EmitTotalLength = emLast.size
        /\ emConn.Protocol = IPProtocolUDP => EmitUdpLength = 8 + emLast.payload
C40_FitsWitness == emLast # NoEmit /\ emConn.Protocol = IPProtocolUDP /\ emLast.payload = 65507 /\ emLast.size = 65535
\* the UDP length field alone is right up to a payload of 65527 bytes
C40_UdpLengthField ==
    (emLast # NoEmit /\ emConn.Protocol = IPProtocolUDP /\ emLast.payload <= 65527) => EmitUdpLength = 8 + emLast.payload

(***************************************************************************)
(* specifications                                                          *)
(***************************************************************************)
InitRoute ==
    /\ RouteInit
    /\ CipherIdle
    /\ DialIdle
    /\ IngressIdle
    /\ SocketIdle
    /\ MainIdle
    /\ RmIdle
    /\ GdIdle
    /\ HandlerIdle
    /\ RelayIdle
    /\ UdpIdle
    /\ CnIpIdle
    /\ RuleIdle
    /\ CacheIdle
    /\ ReloadIdle
    /\ HsIdle
    /\ DnsIdle
    /\ FwdIdle
    /\ NameIdle
    /\ RqIdle
    /\ LoopIdle
    /\ AssocIdle
    /\ EmitIdle
SpecRoute == InitRoute /\ [][RouteNext]_vars
InitCipher ==
    /\ RouteIdle
    /\ CipherInit
    /\ DialIdle
    /\ IngressIdle
    /\ SocketIdle
    /\ MainIdle
    /\ RmIdle
    /\ GdIdle
    /\ HandlerIdle
    /\ RelayIdle
    /\ UdpIdle
    /\ CnIpIdle
    /\ RuleIdle
    /\ CacheIdle
    /\ ReloadIdle
    /\ HsIdle
    /\ DnsIdle
    /\ FwdIdle
    /\ NameIdle
    /\ RqIdle
    /\ LoopIdle
    /\ AssocIdle
    /\ EmitIdle
SpecCipher == InitCipher /\ [][CipherNext]_vars
InitDial ==
    /\ RouteIdle
    /\ CipherIdle
    /\ DialInit
    /\ IngressIdle
    /\ SocketIdle
    /\ MainIdle
    /\ RmIdle
    /\ GdIdle
    /\ HandlerIdle
    /\ RelayIdle
    /\ UdpIdle
    /\ CnIpIdle
    /\ RuleIdle
    /\ CacheIdle
    /\ ReloadIdle
    /\ HsIdle
    /\ DnsIdle
    /\ FwdIdle
    /\ NameIdle
    /\ RqIdle
    /\ LoopIdle
    /\ AssocIdle
    /\ EmitIdle
SpecDial == InitDial /\ [][DialNext]_vars
InitIngress ==
    /\ RouteIdle
    /\ CipherIdle
    /\ DialIdle
    /\ IngressInit
    /\ SocketIdle
    /\ MainIdle
    /\ RmIdle
    /\ GdIdle
    /\ HandlerIdle
    /\ RelayIdle
    /\ UdpIdle
    /\ CnIpIdle
    /\ RuleIdle
    /\ CacheIdle
    /\ ReloadIdle
    /\ HsIdle
    /\ DnsIdle
    /\ FwdIdle
    /\ NameIdle
    /\ RqIdle
    /\ LoopIdle
    /\ AssocIdle
    /\ EmitIdle
SpecIngress == InitIngress /\ [][IngressNext]_vars
InitSocket ==
    /\ RouteInit /\ outType \in {RemoteTypeTLS, RemoteTypeDirect} /\ whiteRules = <<>> /\ blackRules = <<>>
    /\ CipherIdle
    /\ DialIdle
    /\ IngressIdle
    /\ SocketInit
    /\ MainIdle
    /\ RmIdle
    /\ GdIdle
    /\ HandlerIdle
    /\ RelayIdle
    /\ UdpIdle
    /\ CnIpIdle
    /\ RuleIdle
    /\ CacheIdle
    /\ ReloadIdle
    /\ HsIdle
    /\ DnsIdle
    /\ FwdIdle
    /\ NameIdle
    /\ RqIdle
    /\ LoopIdle
    /\ AssocIdle
    /\ EmitIdle
SpecSocket == InitSocket /\ [][SocketNext]_vars
InitMain ==
    /\ RouteIdle
    /\ CipherIdle
    /\ DialIdle
    /\ IngressIdle
    /\ SocketIdle
    /\ MainInit
    /\ RmIdle
    /\ GdIdle
    /\ HandlerIdle
    /\ RelayIdle
    /\ UdpIdle
    /\ CnIpIdle
    /\ RuleIdle
    /\ CacheIdle
    /\ ReloadIdle
    /\ HsIdle
    /\ DnsIdle
    /\ FwdIdle
    /\ NameIdle
    /\ RqIdle
    /\ LoopIdle
    /\ AssocIdle
    /\ EmitIdle
SpecMain == InitMain /\ [][MainNext]_vars
InitRm ==
    /\ RouteInit /\ outType = RemoteTypeDirect /\ blackRules = <<>>
    /\ CipherIdle
    /\ DialIdle
    /\ IngressIdle
    /\ SocketIdle
    /\ MainIdle
    /\ RmInit
    /\ GdIdle
    /\ HandlerIdle
    /\ RelayIdle
    /\ UdpIdle
    /\ CnIpIdle
    /\ RuleIdle
    /\ CacheIdle
    /\ ReloadIdle
    /\ HsIdle
    /\ DnsIdle
    /\ FwdIdle
    /\ NameIdle
    /\ RqIdle
    /\ LoopIdle
    /\ AssocIdle
    /\ EmitIdle
SpecRm == InitRm /\ [][RmNext]_vars
InitGd ==
    /\ RouteIdle
    /\ CipherIdle
    /\ DialIdle
    /\ IngressIdle
    /\ SocketIdle
    /\ MainIdle
    /\ RmIdle
    /\ GdInit
    /\ HandlerIdle
    /\ RelayIdle
    /\ UdpIdle
    /\ CnIpIdle
    /\ RuleIdle
    /\ CacheIdle
    /\ ReloadIdle
    /\ HsIdle
    /\ DnsIdle
    /\ FwdIdle
    /\ NameIdle
    /\ RqIdle
    /\ LoopIdle
    /\ AssocIdle
    /\ EmitIdle
SpecGd == InitGd /\ [][GdNext]_vars
InitHandler ==
    /\ RouteIdle
    /\ CipherIdle
    /\ DialIdle
    /\ IngressIdle
    /\ SocketIdle
    /\ MainIdle
    /\ RmIdle
    /\ GdIdle
    /\ HandlerInit
    /\ RelayIdle
    /\ UdpIdle
    /\ CnIpIdle
    /\ RuleIdle
    /\ CacheIdle
    /\ ReloadIdle
    /\ HsIdle
    /\ DnsIdle
    /\ FwdIdle
    /\ NameIdle
    /\ RqIdle
    /\ LoopIdle
    /\ AssocIdle
    /\ EmitIdle
SpecHandler == InitHandler /\ [][HandlerNext]_vars
InitRelay ==
    /\ RouteIdle
    /\ CipherIdle
    /\ DialIdle
    /\ IngressIdle
    /\ SocketIdle
    /\ MainIdle
    /\ RmIdle
    /\ GdIdle
    /\ HandlerIdle
    /\ RelayInit
    /\ UdpIdle
    /\ CnIpIdle
    /\ RuleIdle
    /\ CacheIdle
    /\ ReloadIdle
    /\ HsIdle
    /\ DnsIdle
    /\ FwdIdle
    /\ NameIdle
    /\ RqIdle
    /\ LoopIdle
    /\ AssocIdle
    /\ EmitIdle
SpecRelay == InitRelay /\ [][RelayNext]_vars
\* the Go scheduler runs every goroutine that is not blocked; the peers owe nothing
FairSpecRelay ==
    /\ InitRelay
    /\ [][RelayNext]_vars
    /\ WF_vars(UpRead)
    /\ WF_vars(\E ok \in BOOLEAN : UpWrite(ok))
    /\ WF_vars(DownRead)
    /\ WF_vars(\E ok \in BOOLEAN : DownWrite(ok))
    /\ WF_vars(SessionReturn)
InitUdp ==
    /\ RouteIdle
    /\ CipherIdle
    /\ DialIdle
    /\ IngressIdle
    /\ SocketIdle
    /\ MainIdle
    /\ RmIdle
    /\ GdIdle
    /\ HandlerIdle
    /\ RelayIdle
    /\ UdpInit
    /\ CnIpIdle
    /\ RuleIdle
    /\ CacheIdle
    /\ ReloadIdle
    /\ HsIdle
    /\ DnsIdle
    /\ FwdIdle
    /\ NameIdle
    /\ RqIdle
    /\ LoopIdle
    /\ AssocIdle
    /\ EmitIdle
SpecUdp == InitUdp /\ [][UdpNext]_vars
InitCnIp ==
    /\ RouteIdle
    /\ CipherIdle
    /\ DialIdle
    /\ IngressIdle
    /\ SocketIdle
    /\ MainIdle
    /\ RmIdle
    /\ GdIdle
    /\ HandlerIdle
    /\ RelayIdle
    /\ UdpIdle
    /\ CnIpInit
    /\ RuleIdle
    /\ CacheIdle
    /\ ReloadIdle
    /\ HsIdle
    /\ DnsIdle
    /\ FwdIdle
    /\ NameIdle
    /\ RqIdle
    /\ LoopIdle
    /\ AssocIdle
    /\ EmitIdle
SpecCnIp == InitCnIp /\ [][CnIpNext]_vars
InitRule ==
    /\ RouteIdle
    /\ CipherIdle
    /\ DialIdle
    /\ IngressIdle
    /\ SocketIdle
    /\ MainIdle
    /\ RmIdle
    /\ GdIdle
    /\ HandlerIdle
    /\ RelayIdle
    /\ UdpIdle
    /\ CnIpIdle
    /\ RuleInit
    /\ CacheIdle
    /\ ReloadIdle
    /\ HsIdle
    /\ DnsIdle
    /\ FwdIdle
    /\ NameIdle
    /\ RqIdle
    /\ LoopIdle
    /\ AssocIdle
    /\ EmitIdle
SpecRule == InitRule /\ [][RuleNext]_vars
InitCache ==
    /\ RouteIdle
    /\ CipherIdle
    /\ DialIdle
    /\ IngressIdle
    /\ SocketIdle
    /\ MainIdle
    /\ RmIdle
    /\ GdIdle
    /\ HandlerIdle
    /\ RelayIdle
    /\ UdpIdle
    /\ CnIpIdle
    /\ RuleIdle
    /\ CacheInit
    /\ ReloadIdle
    /\ HsIdle
    /\ DnsIdle
    /\ FwdIdle
    /\ NameIdle
    /\ RqIdle
    /\ LoopIdle
    /\ AssocIdle
    /\ EmitIdle
SpecCache == InitCache /\ [][CacheNext]_vars
InitReload ==
    /\ RouteIdle
    /\ CipherIdle
    /\ DialIdle
    /\ IngressIdle
    /\ SocketIdle
    /\ MainIdle
    /\ RmIdle
    /\ GdIdle
    /\ HandlerIdle
    /\ RelayIdle
    /\ UdpIdle
    /\ CnIpIdle
    /\ RuleIdle
    /\ CacheIdle
    /\ ReloadInit
    /\ HsIdle
    /\ DnsIdle
    /\ FwdIdle
    /\ NameIdle
    /\ RqIdle
    /\ LoopIdle
    /\ AssocIdle
    /\ EmitIdle
SpecReload == InitReload /\ [][ReloadNext]_vars
InitHs ==
    /\ RouteIdle
    /\ CipherIdle
    /\ DialIdle
    /\ IngressIdle
    /\ SocketIdle
    /\ MainIdle
    /\ RmIdle
    /\ GdIdle
    /\ HandlerIdle
    /\ RelayIdle
    /\ UdpIdle
    /\ CnIpIdle
    /\ RuleIdle
    /\ CacheIdle
    /\ ReloadIdle
    /\ HsInit
    /\ DnsIdle
    /\ FwdIdle
    /\ NameIdle
    /\ RqIdle
    /\ LoopIdle
    /\ AssocIdle
    /\ EmitIdle
SpecHs == InitHs /\ [][HsNext]_vars
InitDns ==
    /\ RouteIdle
    /\ CipherIdle
    /\ DialIdle
    /\ IngressIdle
    /\ SocketIdle
    /\ MainIdle
    /\ RmIdle
    /\ GdIdle
    /\ HandlerIdle
    /\ RelayIdle
    /\ UdpIdle
    /\ CnIpIdle
    /\ RuleIdle
    /\ CacheIdle
    /\ ReloadIdle
    /\ HsIdle
    /\ DnsInit
    /\ FwdIdle
    /\ NameIdle
    /\ RqIdle
    /\ LoopIdle
    /\ AssocIdle
    /\ EmitIdle
SpecDns == InitDns /\ [][DnsNext]_vars
InitFwd ==
    /\ RouteIdle
    /\ CipherIdle
    /\ DialIdle
    /\ IngressIdle
    /\ SocketIdle
    /\ MainIdle
    /\ RmIdle
    /\ GdIdle
    /\ HandlerIdle
    /\ RelayIdle
    /\ UdpIdle
    /\ CnIpIdle
    /\ RuleIdle
    /\ CacheIdle
    /\ ReloadIdle
    /\ HsIdle
    /\ DnsIdle
    /\ FwdInit
    /\ NameIdle
    /\ RqIdle
    /\ LoopIdle
    /\ AssocIdle
    /\ EmitIdle
SpecFwd == InitFwd /\ [][FwdNext]_vars
\* the Go scheduler runs the forwarder whenever it is not blocked in Read; the clients of
\* the virtual interface and the egress peer owe nothing
FairSpecFwd ==
    /\ InitFwd
    /\ [][FwdNext]_vars
    /\ WF_vars(FwdLoopTop)
    /\ WF_vars(FwdReadReturns)
    /\ WF_vars(\E ok \in BOOLEAN : FwdDeviceWrite(ok))
    /\ WF_vars(FwdCleanup)
InitName ==
    /\ RouteIdle
    /\ CipherIdle
    /\ DialIdle
    /\ IngressIdle
    /\ SocketIdle
    /\ MainIdle
    /\ RmIdle
    /\ GdIdle
    /\ HandlerIdle
    /\ RelayIdle
    /\ UdpIdle
    /\ CnIpIdle
    /\ RuleIdle
    /\ CacheIdle
    /\ ReloadIdle
    /\ HsIdle
    /\ DnsIdle
    /\ FwdIdle
    /\ NameInit
    /\ RqIdle
    /\ LoopIdle
    /\ AssocIdle
    /\ EmitIdle
SpecName == InitName /\ [][NameNext]_vars
\* parseDNSName is straight-line code in one goroutine: an iteration that can run does
FairSpecName ==
    /\ InitName
    /\ [][NameNext]_vars
    /\ WF_vars(NameLoopStep)
    /\ WF_vars(NameLoopReturn)
InitRq ==
    /\ RouteIdle
    /\ CipherIdle
    /\ DialIdle
    /\ IngressIdle
    /\ SocketIdle
    /\ MainIdle
    /\ RmIdle
    /\ GdIdle
    /\ HandlerIdle
    /\ RelayIdle
    /\ UdpIdle
    /\ CnIpIdle
    /\ RuleIdle
    /\ CacheIdle
    /\ ReloadIdle
    /\ HsIdle
    /\ DnsIdle
    /\ FwdIdle
    /\ NameIdle
    /\ RqInit
    /\ LoopIdle
    /\ AssocIdle
    /\ EmitIdle
SpecRq == InitRq /\ [][RqNext]_vars
InitLoop ==
    /\ RouteIdle
    /\ CipherIdle
    /\ DialIdle
    /\ IngressIdle
    /\ SocketIdle
    /\ MainIdle
    /\ RmIdle
    /\ GdIdle
    /\ HandlerIdle
    /\ RelayIdle
    /\ UdpIdle
    /\ CnIpIdle
    /\ RuleIdle
    /\ CacheIdle
    /\ ReloadIdle
    /\ HsIdle
    /\ DnsIdle
    /\ FwdIdle
    /\ NameIdle
    /\ RqIdle
    /\ LoopInit
    /\ AssocIdle
    /\ EmitIdle
SpecLoop == InitLoop /\ [][LoopNext]_vars
\* the Go scheduler runs the goroutine of Handler.Start whenever it is not blocked in
\* Read; the senders of packets and the caller of Service.Stop owe nothing
FairSpecLoop ==
    /\ InitLoop
    /\ [][LoopNext]_vars
    /\ WF_vars(StartReadReturns)
    /\ WF_vars(StartLogsReadError)
    /\ WF_vars(StartLogsParseError)
    /\ WF_vars(StartSpawnsHandler)
InitAssoc ==
    /\ RouteIdle
    /\ CipherIdle
    /\ DialIdle
    /\ IngressIdle
    /\ SocketIdle
    /\ MainIdle
    /\ RmIdle
    /\ GdIdle
    /\ HandlerIdle
    /\ RelayIdle
    /\ UdpIdle
    /\ CnIpIdle
    /\ RuleIdle
    /\ CacheIdle
    /\ ReloadIdle
    /\ HsIdle
    /\ DnsIdle
    /\ FwdIdle
    /\ NameIdle
    /\ RqIdle
    /\ LoopIdle
    /\ AssocInit
    /\ EmitIdle
SpecAssoc == InitAssoc /\ [][AssocNext]_vars
InitEmit ==
    /\ RouteIdle
    /\ CipherIdle
    /\ DialIdle
    /\ IngressIdle
    /\ SocketIdle
    /\ MainIdle
    /\ RmIdle
    /\ GdIdle
    /\ HandlerIdle
    /\ RelayIdle
    /\ UdpIdle
    /\ CnIpIdle
    /\ RuleIdle
    /\ CacheIdle
    /\ ReloadIdle
    /\ HsIdle
    /\ DnsIdle
    /\ FwdIdle
    /\ NameIdle
    /\ RqIdle
    /\ LoopIdle
    /\ AssocIdle
    /\ EmitInit
SpecEmit == InitEmit /\ [][EmitNext]_vars

====
